---- MODULE Spec2Model ----
(***************************************************************************)
(* Model of the PDF report pipeline of the canvas-reports plugin:          *)
(* ReportingService (public/services/reporting.tsx) driving the modal      *)
(* host, the dashboard DOM, the capture collaborator (html2canvas) and the *)
(* PDF assembler, and PdfDocument (public/components/pdf_document.tsx).    *)
(*                                                                         *)
(* One action is one run-to-completion step of the JavaScript event loop:  *)
(* the code between two suspension points.  A continuation of the main     *)
(* async function that is ready (a settled promise) runs before any timer  *)
(* or capture completion, as microtasks do.                                *)
(***************************************************************************)
EXTENDS Integers, Sequences, FiniteSets, TLC

(* ---------------------------- bounds ---------------------------------- *)
MaxPanels == 2
MaxDuration == 1
MaxRuns == 12
MaxFailedRuns == 2
MaxDen == 26
MaxOvershoot == 2
MaxCount == 5
\* most pages of a report template the asset service returns
MaxTemplatePages == 3
\* requests the server receives, files it stores, and the last clock reading
MaxRequests == 3
MaxFiles == 2
MaxClock == 20
MaxAppChanges == 4

(* ------------------------ program constants --------------------------- *)
MaxHistory == 10
VisualizationsPerPage == 2

Phases == <<"initialization", "data_gathering", "info_retrieval", "pdf_generation", "success">>
PhaseSet == {Phases[i] : i \in 1..Len(Phases)}

\* PHASE_CONFIG, in hundredths
PHASE_CONFIG ==
  [initialization |-> 5, data_gathering |-> 65, info_retrieval |-> 20,
   pdf_generation |-> 5, success |-> 5]

phaseMessages ==
  [initialization |-> [message |-> "Starting report generation...", isSuccess |-> FALSE],
   data_gathering |-> [message |-> "gathering your dashboard data", isSuccess |-> FALSE],
   info_retrieval |-> [message |-> "Retrieving information...", isSuccess |-> FALSE],
   pdf_generation |-> [message |-> "Generating PDF content...", isSuccess |-> FALSE],
   success        |-> [message |-> "Report generated successfully!", isSuccess |-> TRUE]]

Durations == 1..MaxDuration

(* ------------------------- small helpers ------------------------------ *)
Min(a, b) == IF a <= b THEN a ELSE b
Max(a, b) == IF a >= b THEN a ELSE b

PhaseIndex(phase) == CHOOSE i \in 1..Len(Phases) : Phases[i] = phase

RECURSIVE SumWeights(_)
SumWeights(n) == IF n = 0 THEN 0 ELSE PHASE_CONFIG[Phases[n]] + SumWeights(n - 1)

\* Math.round((accumulated + currentContribution) * 100) in IEEE-754 doubles
\* falls below the exact tie n.5 for two fractions: 0.05 * 0.7 is
\* 0.034999999999999996 (3.4999999999999996 percent) and
\* (0.05 + 0.65 * (7 / 26)) * 100 is 22.499999999999996.  Every other fraction
\* with a denominator up to 40 rounds as its exact value does.
roundsBelowTie(phase, n, den) ==
  \/ phase = "initialization" /\ 10 * n = 7 * den
  \/ phase = "data_gathering" /\ 26 * n = 7 * den

\* calculateProgress without the weights of the earlier phases
calculateProgressPhaseOnly(phase, num, den) ==
  LET n == Min(den, Max(0, num))
  IN  (2 * (PHASE_CONFIG[phase] * n) + den) \div (2 * den)

\* calculateProgress without Math.min / Math.max
calculateProgressUnclamped(phase, num, den) ==
  LET accumulated == SumWeights(PhaseIndex(phase) - 1)
  IN  (2 * (accumulated * den + PHASE_CONFIG[phase] * num) + den) \div (2 * den)

\* calculateProgress(phase, num/den): the fraction is clamped to [0,1], the
\* weights of the earlier phases are accumulated, and the percentage is
\* rounded half up (Math.round) from the double the code computes.
calculateProgress(phase, num, den) ==
  LET accumulated == SumWeights(PhaseIndex(phase) - 1)
      n == Min(den, Max(0, num))
      exact == (2 * (accumulated * den + PHASE_CONFIG[phase] * n) + den) \div (2 * den)
  IN  IF roundsBelowTie(phase, n, den) THEN exact - 1 ELSE exact

\* updatePhaseHistory that shifts only once the history exceeds MaxHistory
updatePhaseHistoryLate(history, phase, duration) ==
  LET h == history[phase]
      kept == IF Len(h) > MaxHistory THEN Tail(h) ELSE h
  IN  [history EXCEPT ![phase] = Append(kept, duration)]

\* updatePhaseHistory: at most MaxHistory entries, the oldest is shifted out
updatePhaseHistory(history, phase, duration) ==
  LET h == history[phase]
      kept == IF Len(h) >= MaxHistory THEN Tail(h) ELSE h
  IN  [history EXCEPT ![phase] = Append(kept, duration)]

(* ------------------------------ the DOM -------------------------------- *)
\* The dashboard panels the model draws from, each given by the selectors
\* that match inside the panel element ([data-test-embeddable-id]).
PanelKinds == {"markdown", "timeseries", "pie", "splitvis"}

Features(kind) ==
  CASE kind = "markdown"   -> {".visualization.markdownVis"}
    [] kind = "timeseries" -> {".visChart", ".tvbVisTimeSeries"}
    [] kind = "pie"        -> {".visChart", ".arcs"}
    [] kind = "splitvis"   -> {".visChart", ".tvbSplitVis", ".tvbVis[colored]"}

isExcludedPanelType(kind) ==
  \E sel \in {".visualization.markdownVis", "[data-test-subj=discoverTable]", ".icvContainer"} :
     sel \in Features(kind)

isEmptyPanel(kind) == ".tvbVis:empty" \in Features(kind)

hasNoDataMessage(kind) == "p:no-data-message" \in Features(kind)

isValidPanel(kind) ==
  ~isExcludedPanelType(kind) /\ ~isEmptyPanel(kind) /\ ~hasNoDataMessage(kind)

RECURSIVE ValidFrom(_, _)
ValidFrom(ps, i) ==
  IF i > Len(ps) THEN <<>>
  ELSE (IF isValidPanel(ps[i]) THEN <<i>> ELSE <<>>) \o ValidFrom(ps, i + 1)

\* getValidPanels: indices (document order) of the panels that pass validation
getValidPanels(ps) == ValidFrom(ps, 1)

\* The inline style subset the layout normalizer deals with.
Geometry(t, l, w, h) ==
  [top |-> t, left |-> l, width |-> w, height |-> h,
   position |-> "absolute", visibility |-> "hidden"]

WideBox   == Geometry("540px", "964px", "948px", "384px")
PieBox    == Geometry("540px", "964px", "640px", "440px")
TrendBox  == Geometry("260px", "637px", "318px", "340px")
SplitBox  == Geometry("320px", "637px", "637px", "200px")
MetricBox == Geometry("700px", "637px", "637px", "220px")
TableBox  == Geometry("1600px", "955px", "955px", "540px")

\* The probes of preparePanelDimensions in the order their forEach loops run.
\* chart = TRUE: the probe is taken among the panels that contain .visChart.
Probes == <<
  [name |-> "tsvbPanels",         chart |-> TRUE,  sel |-> ".tvbVisTimeSeries",        box |-> WideBox],
  [name |-> "barCharts",          chart |-> TRUE,  sel |-> ".visAxis--y",              box |-> WideBox],
  [name |-> "pieChartPanels",     chart |-> TRUE,  sel |-> ".arcs",                    box |-> PieBox],
  [name |-> "topNCharts",         chart |-> TRUE,  sel |-> ".tvbVisTopN",              box |-> PieBox],
  [name |-> "trendMetrics",       chart |-> TRUE,  sel |-> ".osdRedirectCrossAppLinks", box |-> TrendBox],
  [name |-> "tsvbMetrics",        chart |-> TRUE,  sel |-> ".tvbSplitVis",             box |-> SplitBox],
  [name |-> "metricPanels",       chart |-> FALSE, sel |-> ".mtrVis",                  box |-> MetricBox],
  [name |-> "tablePanels",        chart |-> FALSE, sel |-> ".visualization.tableVis",  box |-> TableBox],
  [name |-> "tvbSplitVis",        chart |-> TRUE,  sel |-> ".tvbSplitVis",             box |-> TableBox],
  [name |-> "tvbTableView",       chart |-> TRUE,  sel |-> "[data-test-subj=tableView]", box |-> TableBox],
  [name |-> "cloudPanels",        chart |-> FALSE, sel |-> ".tgcChart",                box |-> WideBox],
  [name |-> "mapCharts",          chart |-> TRUE,  sel |-> ".visChart.vgaVis",         box |-> WideBox],
  [name |-> "markdownTsvbPanels", chart |-> FALSE, sel |-> "[data-test-subj=tsvbMarkdown]", box |-> WideBox] >>

ProbeMatches(probe, kind) ==
  /\ probe.sel \in Features(kind)
  /\ probe.chart => ".visChart" \in Features(kind)

\* the inline style a grid cell / panel body has before a report run
InitialRootStyle ==
  [top |-> "0px", left |-> "0px", width |-> "480px", height |-> "300px",
   position |-> "", visibility |-> ""]
InitialEmbStyle ==
  [top |-> "", left |-> "", width |-> "", height |-> "",
   position |-> "", visibility |-> ""]

\* storeAndApplyStyles on one panel: st = [root, emb, snapRoot, snapEmb, stored]
\* originalStyles.set overwrites an earlier snapshot of the same element.
storeAndApplyStyles(st, box) ==
  [root     |-> box,
   emb      |-> [st.emb EXCEPT !.width = "100%", !.height = "100%"],
   snapRoot |-> st.root,
   snapEmb  |-> [width |-> st.emb.width, height |-> st.emb.height],
   stored   |-> TRUE]

RECURSIVE ApplyProbes(_, _, _)
ApplyProbes(st, kind, i) ==
  IF i > Len(Probes) THEN st
  ELSE ApplyProbes(IF ProbeMatches(Probes[i], kind)
                   THEN storeAndApplyStyles(st, Probes[i].box) ELSE st,
                   kind, i + 1)

\* the restore closure applied to one panel: Object.assign(element.style, styles)
restoreOne(st) ==
  IF st.stored
  THEN [st EXCEPT !.root = st.snapRoot,
                  !.emb = [st.emb EXCEPT !.width = st.snapEmb.width,
                                         !.height = st.snapEmb.height]]
  ELSE st

\* capture profile chosen by capturePanelScreenshot from the element's content
CaptureProfile(features) ==
  IF ".arcs" \in features THEN "arc"
  ELSE IF ".tvbVisTimeSeries" \in features THEN "time-series"
  ELSE IF ".tvbVis[colored]" \in features THEN "metric"
  ELSE "default"

\* calculateTotalPages with two visualizations on every content page
calculateTotalPagesEven(validCount) ==
  3 + (validCount + (VisualizationsPerPage - 1)) \div VisualizationsPerPage

\* calculateTotalPages
calculateTotalPages(validCount) ==
  LET contentPages ==
        IF validCount > 0
        THEN 1 + ((validCount - 1) + (VisualizationsPerPage - 1)) \div VisualizationsPerPage
        ELSE 0
  IN  3 + contentPages

\* The elements capturePanelScreenshot is called on.
PanelEl(i)      == <<"panel", i>>
PanelTitleEl(i) == <<"panelTitle", i>>
DashTitleEl     == <<"dashboardTitle", 0>>
HeaderEl        == <<"timeRange", 0>>
TocEl           == <<"toc", 0>>
FooterEl        == <<"footer", 0>>
Targets ==
  {DashTitleEl, HeaderEl, TocEl, FooterEl}
    \cup {PanelEl(i) : i \in 1..MaxPanels} \cup {PanelTitleEl(i) : i \in 1..MaxPanels}

Entry(type, ref, data) == [type |-> type, ref |-> ref, data |-> data]

(* ------------------------------ state ---------------------------------- *)
VARIABLES
  dependencies,        \* ReportingService.dependencies: which collaborators are present
  modalHandlers,       \* TRUE once the modal host has registered its handlers
  panels,              \* DOM: kind of every [data-test-embeddable-id] element, document order
  rootStyle,           \* DOM: inline style of each panel's .react-grid-item ancestor
  embStyle,            \* DOM: inline style of each panel's .embPanel ancestor
  visibility,          \* DOM: inline visibility of every capture target
  clones,              \* DOM: clones attached to document.body, <<target, n>>
  phaseTracker,        \* ReportingService.phaseTracker
  phaseHistory,        \* ReportingService.phaseHistory
  lastPhaseProgress,   \* ReportingService.lastPhaseProgress
  progressHandler,     \* closures of createProgressHandler: currentStep / totalSteps
  modalCalls,          \* modal host: the showModal calls received, in order
  hideTimers,          \* modal host: number of scheduled hideModal timeouts
  toasts,              \* notifications.toasts calls, in order
  pc,                  \* position of generatePdfReport
  error,               \* the error in flight (thrown, message)
  originalStyles,      \* preparePanelDimensions: the snapshot map, per panel
  originalVisibility,  \* capturePanelScreenshot: the local of each pending call
  panelTask,           \* processVisualizationPanels: state of each panel's callback
  panelViz,            \* processVisualizationPanels: entries produced per panel
  images,              \* getVisualizationData: captured auxiliary images
  footerPage,          \* createFooterImages: loop variable page
  visualizations,      \* dashboardState.visualizations
  infoTask,            \* handleInformationRetrieval: the three retrievals
  pdfTask,             \* generateAndMergePdf: template load / report generation
  loopIndex,           \* generateAndMergePdf: the progress loop over visualizations
  tenant,              \* checkTenantAccess: tenant returned by the server
  downloads,           \* number of finalizePdfDownload calls
  saves,               \* number of accepted save requests
  templatePdf,         \* generateAndMergePdf: the loaded template document (its pages)
  reportPdf,           \* generateAndMergePdf: the rendered content document (its pages)
  mergedPdf,           \* generateAndMergePdf: the output document (its pages)
  mergedPdfBytes,      \* handlePdfGeneration: TRUE once mergedPdf.save() has resolved
  reportsDirectory,    \* server: the files of REPORTS_DIRECTORY, by file id
  metadataCache,       \* server: metadataCache, by file id (one path per id)
  emailRateLimits,     \* server: emailRateLimits, by user name
  clock,               \* server: Date.now(), in minutes
  handlers,            \* server: the route handlers, each at its position
  emails,              \* SMTP: the mails sent, with the sender and the sending time
  currentAppId,        \* plugin: currentAppId ("" for null)
  cachedHasRole,       \* plugin: cachedHasRole ("null", "true" or "false")
  isAuthorized,        \* plugin: isAuthorized
  navControlUnregister, \* plugin: 0 for undefined, c for the function that unregisters control c
  currentElement,      \* plugin: TRUE when currentElement holds the button container
  pendingRoleChecks,   \* plugin: subscription handlers waiting for the user_roles request
  appChanges,          \* chrome: number of values currentAppId$ has emitted
  navControls,         \* chrome: the center controls registered so far, each with its state
  containers,          \* DOM: number of button containers in the header
  runs,                \* two invocations of generatePdfReport: position and snapshot map of each
  allowTableOfContents, \* generatePdfReport argument: the report button's setting
  probe                \* a function of the service applied to an argument, with its result

vars ==
  <<dependencies, modalHandlers, panels, rootStyle, embStyle, visibility, clones,
    phaseTracker, phaseHistory, lastPhaseProgress, progressHandler, modalCalls,
    hideTimers, toasts, pc, error, originalStyles, originalVisibility, panelTask,
    panelViz, images, footerPage, visualizations, infoTask, pdfTask, loopIndex,
    tenant, downloads, saves, templatePdf, reportPdf, mergedPdf, mergedPdfBytes,
    reportsDirectory, metadataCache, emailRateLimits, clock, handlers, emails,
    currentAppId, cachedHasRole, isAuthorized, navControlUnregister, currentElement,
    pendingRoleChecks, appChanges, navControls, containers, runs,
    allowTableOfContents, probe>>

PanelIdx == 1..Len(panels)
validPanels == getValidPanels(panels)
ValidSet == {validPanels[k] : k \in 1..Len(validPanels)}

AllDependencies ==
  [dashboard |-> TRUE, embeddable |-> TRUE, notifications |-> TRUE, http |-> TRUE]
\* what setDependencies may be given: everything, or one collaborator missing
DependencyConfigs ==
  {AllDependencies} \cup
  {[AllDependencies EXCEPT ![k] = FALSE] :
      k \in {"dashboard", "embeddable", "notifications", "http"}}
NoDependencies ==
  [dashboard |-> FALSE, embeddable |-> FALSE, notifications |-> FALSE, http |-> FALSE]

\* inline visibility of the persistent elements before a report run
InitialVisibility == "visible"
NoError == [thrown |-> FALSE, message |-> ""]
Thrown(msg) == [thrown |-> TRUE, message |-> msg]
\* messages a rejected html2canvas / pdf-lib promise may carry (possibly none)
CollaboratorErrors == {"collaborator error", ""}

NoSnapshot == [stored |-> FALSE, root |-> InitialRootStyle, emb |-> [width |-> "", height |-> ""]]

\* no function applied yet
NoProbe ==
  [fn |-> "none", phase |-> "initialization", num |-> 0, den |-> 1,
   validCount |-> 0, allowToc |-> FALSE, titled |-> {}, arg |-> <<>>, out |-> <<>>]

PanelSeqs == UNION {[1..n -> PanelKinds] : n \in 0..MaxPanels}

\* an invocation of generatePdfReport that has not been made; originalStyles is
\* the map of its call of preparePanelDimensions
NoRun == [pc |-> "idle", originalStyles |-> [i \in 1..MaxPanels |-> NoSnapshot]]

(* ------------------------- server: data ------------------------------- *)
DEFAULT_TENANT_NAME == "__user__"
\* const tenMinutes = 10 * 60 * 1000, in minutes
tenMinutes == 10
\* the users and the tenant each has selected ("" when none is selected)
Users == {"alice", "bob"}
user_requested_tenant(user) == IF user = "alice" THEN "tenantA" ELSE ""
FileIds == 1..MaxFiles
Routes == {"save", "reports", "download", "delete", "send_email"}
NoFile == [exists |-> FALSE, subject |-> ""]
NoMetadata == [cached |-> FALSE, tenant |-> ""]
\* request.query of the save route: tenant and dashboard are optional strings
\* ("" when absent); the client sends its own tenant name and dashboard name
NoQuery == [tenant |-> "", dashboard |-> ""]
SaveQueries ==
  {[tenant |-> "tenantA", dashboard |-> "sales"],
   [tenant |-> DEFAULT_TENANT_NAME, dashboard |-> "ops"]}
NoHandler ==
  [route |-> "none", user |-> "none", fileId |-> 0, pc |-> "unused", tenant |-> "",
   query |-> NoQuery, now |-> 0, metadata |-> "", cursor |-> 0, reports |-> {}, response |-> "none"]

Init ==
  /\ dependencies = NoDependencies
  /\ modalHandlers = FALSE
  /\ panels \in PanelSeqs
  /\ rootStyle = [i \in 1..MaxPanels |-> InitialRootStyle]
  /\ embStyle = [i \in 1..MaxPanels |-> InitialEmbStyle]
  /\ visibility = [t \in Targets |->
                     IF t[1] \in {"panel", "timeRange"} THEN InitialVisibility ELSE ""]
  /\ clones = {}
  /\ phaseTracker = [phase |-> "none"]
  /\ phaseHistory = [ph \in PhaseSet |-> <<>>]
  /\ lastPhaseProgress = 0
  /\ progressHandler = [ph \in PhaseSet |-> [currentStep |-> 0, totalSteps |-> 1]]
  /\ modalCalls = <<>>
  /\ hideTimers = 0
  /\ toasts = <<>>
  /\ pc = "idle"
  /\ error = NoError
  /\ originalStyles = [i \in 1..MaxPanels |-> NoSnapshot]
  /\ originalVisibility = [t \in Targets |-> ""]
  /\ panelTask = [i \in 1..MaxPanels |-> "idle"]
  /\ panelViz = [i \in 1..MaxPanels |-> <<>>]
  /\ images = [dashboardTitle |-> "", timeRange |-> "", toc |-> "", footers |-> <<>>]
  /\ footerPage = 0
  /\ visualizations = <<>>
  /\ infoTask = [t \in {"tenant", "organization", "dashboard"} |-> "idle"]
  /\ pdfTask = [t \in {"template", "report"} |-> "idle"]
  /\ loopIndex = 0
  /\ tenant = "unknown"
  /\ downloads = 0
  /\ saves = 0
  /\ templatePdf = <<>>
  /\ reportPdf = <<>>
  /\ mergedPdf = <<>>
  /\ mergedPdfBytes = FALSE
  /\ reportsDirectory = [f \in FileIds |-> NoFile]
  /\ metadataCache = [f \in FileIds |-> NoMetadata]
  /\ emailRateLimits = [u \in Users |-> 0]
  /\ clock = tenMinutes
  /\ handlers = [k \in 1..MaxRequests |-> NoHandler]
  /\ emails = {}
  /\ currentAppId = ""
  /\ cachedHasRole = "null"
  /\ isAuthorized = FALSE
  /\ navControlUnregister = 0
  /\ currentElement = FALSE
  /\ pendingRoleChecks = 0
  /\ appChanges = 0
  /\ navControls = [c \in 1..MaxAppChanges |-> "none"]
  /\ containers = 0
  /\ runs = [r \in 1..2 |-> NoRun]
  /\ allowTableOfContents \in BOOLEAN
  /\ probe = NoProbe

(* ------------------- progress and the modal host ----------------------- *)
\* The progress state the handlers thread through one step.
Ui == [handler |-> progressHandler, last |-> lastPhaseProgress, calls |-> modalCalls]

SetUi(u) ==
  /\ progressHandler' = u.handler
  /\ lastPhaseProgress' = u.last
  /\ modalCalls' = u.calls

ModalCall(message, type, progress) ==
  [message |-> message, type |-> type, progress |-> progress]

\* this.showModal: the registered handler, or the noop when none is registered
showModal(u, message, type, progress) ==
  IF modalHandlers
  THEN [u EXCEPT !.calls = Append(@, ModalCall(message, type, progress))]
  ELSE u

\* updateModalProgress: the message is that of phaseTracker.phase
updateModalProgress(u, trackedPhase) ==
  IF ~modalHandlers THEN u
  ELSE LET currentProgress == Max(0, Min(100, u.last))
           m == phaseMessages[trackedPhase]
       IN  [u EXCEPT !.calls =
              Append(@, ModalCall(m.message,
                                  IF m.isSuccess THEN "success" ELSE "loading",
                                  currentProgress))]

\* updateProgress(phase, num/den)
updateProgress(u, phase, num, den, trackedPhase) ==
  updateModalProgress([u EXCEPT !.last = calculateProgress(phase, num, den)],
                      trackedPhase)

createProgressHandler(u, phase, totalSteps) ==
  [u EXCEPT !.handler[phase] = [currentStep |-> 0, totalSteps |-> totalSteps]]

\* one invocation of the closure returned by createProgressHandler(phase, ..)
progressCallback(u, phase, trackedPhase) ==
  LET h == u.handler[phase]
  IN  updateModalProgress(
        [u EXCEPT !.handler[phase].currentStep = h.currentStep + 1,
                  !.last = calculateProgress(phase, h.currentStep + 1, h.totalSteps)],
        trackedPhase)

\* handleError: the message shown is the error's, or the data_gathering text
handleError(u, err) ==
  showModal(u,
            IF err.message # "" THEN err.message
            ELSE phaseMessages["data_gathering"].message,
            "error", 0)

(* -------------------------- capture steps ------------------------------ *)
Dom == [visibility |-> visibility, clones |-> clones, saved |-> originalVisibility]

SetDom(d) ==
  /\ visibility' = d.visibility
  /\ clones' = d.clones
  /\ originalVisibility' = d.saved

\* capturePanelScreenshot up to its first wait: the original is hidden and its
\* clone is appended to document.body
captureBegin(d, t) ==
  [d EXCEPT !.saved[t] = d.visibility[t],
            !.visibility[t] = "hidden",
            !.clones = @ \cup {<<t, 1>>}]

\* cleanupCaptureElements(clonedElement, original, originalVisibility): removes
\* the clone that clonedElement refers to, if it is attached
cleanupCaptureElements(d, t, cloneRef) ==
  [d EXCEPT !.clones = @ \ {<<t, cloneRef>>},
            !.visibility[t] = d.saved[t]]

\* capturePanelScreenshot from the end of the wait to its finally block.  In
\* the arc profile clonedElement is reassigned to a second clone, which the
\* inner finally removes (and hides the original again) before the outer
\* cleanup runs; the outcome of html2canvas does not change the cleanup.
captureEnd(d, t, profile) ==
  IF profile = "arc"
  THEN LET d2 == [d EXCEPT !.clones = @ \cup {<<t, 2>>}]
           d3 == [d2 EXCEPT !.clones = @ \ {<<t, 2>>}, !.visibility[t] = "hidden"]
       IN  cleanupCaptureElements(d3, t, 2)
  ELSE cleanupCaptureElements(d, t, 1)

(* ----------------------- layout normalisation -------------------------- *)
PanelLayout(i) ==
  [root |-> rootStyle[i], emb |-> embStyle[i],
   snapRoot |-> originalStyles[i].root, snapEmb |-> originalStyles[i].emb,
   stored |-> originalStyles[i].stored]

\* preparePanelDimensions, the synchronous part, on the validated panels
preparePanelDimensions ==
  LET after == [i \in 1..MaxPanels |->
                  IF i \in ValidSet
                  THEN ApplyProbes([PanelLayout(i) EXCEPT !.stored = FALSE], panels[i], 1)
                  ELSE [PanelLayout(i) EXCEPT !.stored = FALSE]]
  IN  /\ rootStyle' = [i \in 1..MaxPanels |-> after[i].root]
      /\ embStyle' = [i \in 1..MaxPanels |-> after[i].emb]
      /\ originalStyles' = [i \in 1..MaxPanels |->
             [stored |-> after[i].stored, root |-> after[i].snapRoot,
              emb |-> after[i].snapEmb]]

\* the closure returned by preparePanelDimensions
restoreLayout ==
  LET after == [i \in 1..MaxPanels |-> restoreOne(PanelLayout(i))]
  IN  /\ rootStyle' = [i \in 1..MaxPanels |-> after[i].root]
      /\ embStyle' = [i \in 1..MaxPanels |-> after[i].emb]
      /\ UNCHANGED originalStyles

(* ------------------------------ actions -------------------------------- *)
wiringVars == <<dependencies, modalHandlers>>
serverVars == <<reportsDirectory, metadataCache, emailRateLimits, clock, handlers, emails>>
pluginVars ==
  <<currentAppId, cachedHasRole, isAuthorized, navControlUnregister, currentElement,
    pendingRoleChecks, appChanges, navControls, containers>>
inputVars  == <<allowTableOfContents, probe, serverVars, pluginVars, runs>>
styleVars  == <<rootStyle, embStyle, originalStyles>>
domVars    == <<visibility, clones, originalVisibility>>
uiVars     == <<progressHandler, lastPhaseProgress, modalCalls>>
dgVars     == <<panelTask, panelViz, images, footerPage, visualizations>>
docVars    == <<templatePdf, reportPdf, mergedPdf, mergedPdfBytes>>
pdfVars    == <<pdfTask, loopIndex, tenant, downloads, saves, docVars>>

\* The main async function has a continuation ready to run (a settled promise):
\* it runs before any timer or capture completion.
PanelsSettled ==
  \/ \E i \in ValidSet : panelTask[i] = "failed"
  \/ \A i \in ValidSet : panelTask[i] = "done"
InfoSettled ==
  \/ \E t \in DOMAIN infoTask : infoTask[t] = "failed"
  \/ \A t \in DOMAIN infoTask : infoTask[t] = "done"
PdfLoadSettled ==
  \/ \E t \in DOMAIN pdfTask : pdfTask[t] = "failed"
  \/ \A t \in DOMAIN pdfTask : pdfTask[t] = "done"
MainReady ==
  \/ pc \in {"op_resolved", "op_rejected", "next"}
  \/ pc = "dg_panels" /\ PanelsSettled
  \/ pc = "ir_wait" /\ InfoSettled
  \/ pc = "pg_load" /\ PdfLoadSettled

\* setDependencies, called once by the plugin's start
SetDependencies ==
  /\ pc = "idle"
  /\ dependencies = NoDependencies
  /\ \E d \in DependencyConfigs : dependencies' = d
  /\ UNCHANGED <<inputVars, modalHandlers, panels, styleVars, domVars, uiVars, dgVars, pdfVars,
                 phaseTracker, phaseHistory, hideTimers, toasts, pc, error, infoTask>>

\* setModalHandlers, called by the report button when it mounts
SetModalHandlers ==
  /\ pc = "idle"
  /\ ~modalHandlers
  /\ modalHandlers' = TRUE
  /\ UNCHANGED <<inputVars, dependencies, panels, styleVars, domVars, uiVars, dgVars, pdfVars,
                 phaseTracker, phaseHistory, hideTimers, toasts, pc, error, infoTask>>

\* generatePdfReport, called by the report button (which has registered its
\* modal handlers when it mounted): executePhase('initialization',
\* handleInitialization) up to the point where the operation has resolved
GeneratePdfReport ==
  /\ pc = "idle"
  /\ modalHandlers
  /\ phaseTracker' = [phase |-> "initialization"]
  /\ LET u1 == updateProgress(Ui, "initialization", 0, 1, "initialization")
         u2 == showModal(u1, phaseMessages["initialization"].message, "loading",
                         calculateProgress("initialization", 0, 1))
     IN  SetUi(u2)
  /\ pc' = "op_resolved"
  /\ UNCHANGED <<inputVars, wiringVars, panels, styleVars, domVars, dgVars, pdfVars,
                 phaseHistory, hideTimers, toasts, error, infoTask>>

\* executePhase after the operation resolved: 100% of the phase, one duration
ExecutePhaseReturn ==
  /\ pc = "op_resolved"
  /\ LET phase == phaseTracker.phase
     IN  /\ SetUi(updateProgress(Ui, phase, 1, 1, phase))
         /\ \E d \in Durations :
               phaseHistory' = updatePhaseHistory(phaseHistory, phase, d)
         /\ pc' = IF phase = "success" THEN "done" ELSE "next"
  /\ UNCHANGED <<inputVars, wiringVars, panels, styleVars, domVars, dgVars, pdfVars,
                 phaseTracker, hideTimers, toasts, error, infoTask>>

\* ExecutePhaseThrow with the error swallowed: the pipeline goes on
ExecutePhaseThrowSwallowed ==
  /\ pc = "op_rejected"
  /\ \E d \in Durations :
        phaseHistory' = updatePhaseHistory(phaseHistory, phaseTracker.phase, d)
  /\ pc' = IF phaseTracker.phase = "success" THEN "done" ELSE "next"
  /\ UNCHANGED <<inputVars, wiringVars, panels, styleVars, domVars, uiVars, dgVars, pdfVars,
                 phaseTracker, hideTimers, toasts, error, infoTask>>

\* ExecutePhaseThrow without the duration entry of the catch block
ExecutePhaseThrowUnrecorded ==
  /\ pc = "op_rejected"
  /\ SetUi(handleError(Ui, error))
  /\ hideTimers' = hideTimers + 1
  /\ pc' = "failed"
  /\ UNCHANGED <<inputVars, wiringVars, panels, styleVars, domVars, dgVars, pdfVars,
                 phaseTracker, phaseHistory, toasts, error, infoTask>>

\* executePhase's catch block (one duration, rethrow), then generatePdfReport's
\* catch block: handleError and scheduleModalDismissal
ExecutePhaseThrow ==
  /\ pc = "op_rejected"
  /\ \E d \in Durations :
        phaseHistory' = updatePhaseHistory(phaseHistory, phaseTracker.phase, d)
  /\ SetUi(handleError(Ui, error))
  /\ hideTimers' = hideTimers + 1
  /\ pc' = "failed"
  /\ UNCHANGED <<inputVars, wiringVars, panels, styleVars, domVars, dgVars, pdfVars,
                 phaseTracker, toasts, error, infoTask>>

\* validateDashboardServices
validateDashboardServices(deps) ==
  deps.dashboard /\ deps.embeddable /\ deps.notifications

\* notification?.toasts.add...: dropped when the notifications service is absent
Toast(ts, kind) == IF dependencies.notifications THEN Append(ts, kind) ELSE ts

\* executePhase('data_gathering', handleDataCollection) up to the wait inside
\* getTimeRange (reportProgress)
BeginDataGathering ==
  /\ pc = "next"
  /\ phaseTracker.phase = "initialization"
  /\ phaseTracker' = [phase |-> "data_gathering"]
  /\ LET u1 == updateProgress(Ui, "data_gathering", 0, 1, "data_gathering")
         u2 == createProgressHandler(u1, "data_gathering", 2 + Len(panels))
     IN  IF validateDashboardServices(dependencies)
         THEN /\ SetUi(progressCallback(u2, "data_gathering", "data_gathering"))
              /\ pc' = "dg_time_range"
              /\ error' = error
         ELSE /\ SetUi(u2)
              /\ pc' = "op_rejected"
              /\ error' = Thrown("Dashboard services not available")
  /\ UNCHANGED <<inputVars, wiringVars, panels, styleVars, domVars, dgVars, pdfVars,
                 phaseHistory, hideTimers, toasts, infoTask>>

\* getVisualizationData without the empty-panel-set check
noValidPanelsUnchecked(valid) == FALSE

\* getVisualizationData throws when no panel passed validation
noValidPanels(valid) == Len(valid) = 0

\* getTimeRange after its wait, then getVisualizationData up to the settle
\* wait of preparePanelDimensions
DgTimeRangeChecked ==
  /\ pc = "dg_time_range"
  /\ \E timeRangeElement \in BOOLEAN :
       IF ~timeRangeElement
       THEN \* handleDashboardSelectionError, then throw
            /\ toasts' = Toast(toasts, "danger")
            /\ SetUi(showModal(Ui, "No Dashboard selected", "error", 0))
            /\ error' = Thrown("No Dashboard selected")
            /\ pc' = "op_rejected"
            /\ UNCHANGED styleVars
       ELSE IF noValidPanels(validPanels)
       THEN /\ error' = Thrown("No report content available")
            /\ pc' = "op_rejected"
            /\ UNCHANGED <<toasts, uiVars, styleVars>>
       ELSE /\ toasts' = Toast(toasts, "success")
            /\ preparePanelDimensions
            /\ pc' = "dg_layout_settle"
            /\ UNCHANGED <<uiVars, error>>
  /\ UNCHANGED <<inputVars, wiringVars, panels, domVars, dgVars, pdfVars,
                 phaseTracker, phaseHistory, hideTimers, infoTask>>

RECURSIVE BeginPanelCaptures(_, _, _)
\* processVisualizationPanels: every panel's callback reaches the wait of its
\* capturePanelScreenshot call before any capture completes
BeginPanelCaptures(d, valid, k) ==
  IF k > Len(valid) THEN d
  ELSE BeginPanelCaptures(captureBegin(d, PanelEl(valid[k])), valid, k + 1)

StartPanels(d) ==
  /\ SetDom(BeginPanelCaptures(d, validPanels, 1))
  /\ panelTask' = [i \in 1..MaxPanels |->
                     IF i \in ValidSet THEN "capturing" ELSE panelTask[i]]
  /\ pc' = "dg_panels"

\* preparePanelDimensions has settled; processDashboardTitle up to its capture
DgLayoutSettled ==
  /\ pc = "dg_layout_settle"
  /\ SetDom(captureBegin(Dom, DashTitleEl))
  /\ pc' = "dg_title"
  /\ UNCHANGED <<inputVars, wiringVars, panels, styleVars, uiVars, dgVars, pdfVars,
                 phaseTracker, phaseHistory, hideTimers, toasts, error, infoTask>>

\* the dashboard title capture settles (a failure is caught: empty image);
\* captureTimeRange starts, or returns '' at once when the picker is absent
DgTitleCaptured ==
  /\ pc = "dg_title"
  /\ \E ok \in BOOLEAN, pickerElement \in BOOLEAN :
       LET d1 == captureEnd(Dom, DashTitleEl, "default")
       IN  /\ images' = [images EXCEPT !.dashboardTitle = IF ok THEN "img" ELSE ""]
           /\ IF pickerElement
              THEN /\ SetDom(captureBegin(d1, HeaderEl))
                   /\ pc' = "dg_header"
                   /\ UNCHANGED panelTask
              ELSE StartPanels(d1)
  /\ SetUi(progressCallback(Ui, "data_gathering", phaseTracker.phase))
  /\ UNCHANGED <<inputVars, wiringVars, panels, styleVars, pdfVars, panelViz, footerPage,
                 visualizations, phaseTracker, phaseHistory, hideTimers, toasts,
                 error, infoTask>>

\* the time-range capture settles; its failure is not caught
DgHeaderCaptured ==
  /\ pc = "dg_header"
  /\ SetUi(progressCallback(Ui, "data_gathering", phaseTracker.phase))
  /\ LET d1 == captureEnd(Dom, HeaderEl, "default")
     IN  \/ /\ images' = [images EXCEPT !.timeRange = "img"]
            /\ StartPanels(d1)
            /\ UNCHANGED <<styleVars, error>>
         \/ /\ \E msg \in CollaboratorErrors : error' = Thrown(msg)
            /\ SetDom(d1)
            /\ restoreLayout
            /\ pc' = "dg_finally"
            /\ UNCHANGED <<images, panelTask>>
  /\ UNCHANGED <<inputVars, wiringVars, panels, pdfVars, panelViz, footerPage, visualizations,
                 phaseTracker, phaseHistory, hideTimers, toasts, infoTask>>

\* position (0-based) of panel i in the array given to processVisualizationPanels
IndexOf(valid, i) == (CHOOSE k \in 1..Len(valid) : valid[k] = i) - 1

\* addPageBreaks without the test for the last panel
addPageBreaksAfterLast(viz, index, totalPanels) ==
  IF (index + 1) % 2 = 0
  THEN Append(viz, Entry("PageBreak", index, ""))
  ELSE viz

\* addPageBreaks
addPageBreaks(viz, index, totalPanels) ==
  IF (index + 1) % 2 = 0 /\ index # totalPanels - 1
  THEN Append(viz, Entry("PageBreak", index, ""))
  ELSE viz

\* a panel's main capture settles: cleanup and onProgress in the finally block;
\* on success the explicit progress update and the start of the title capture
PanelCaptured(i) ==
  /\ i \in ValidSet
  /\ panelTask[i] = "capturing"
  /\ ~MainReady
  /\ LET d1 == captureEnd(Dom, PanelEl(i), CaptureProfile(Features(panels[i])))
         u1 == progressCallback(Ui, "data_gathering", phaseTracker.phase)
     IN  \/ /\ SetUi(progressCallback(u1, "data_gathering", phaseTracker.phase))
            /\ SetDom(captureBegin(d1, PanelTitleEl(i)))
            /\ panelTask' = [panelTask EXCEPT ![i] = "title"]
            /\ UNCHANGED error
         \/ /\ SetUi(u1)
            /\ SetDom(d1)
            /\ panelTask' = [panelTask EXCEPT ![i] = "failed"]
            /\ \E msg \in CollaboratorErrors :
                  error' = IF pc = "dg_panels" THEN Thrown(msg) ELSE error
  /\ UNCHANGED <<inputVars, wiringVars, panels, styleVars, pdfVars, panelViz, images, footerPage,
                 visualizations, phaseTracker, phaseHistory, hideTimers, toasts, pc,
                 infoTask>>

\* createDataTitleVisualization that substitutes an empty image on failure
createDataTitleVisualizationEmpty(i, ok) ==
  <<Entry("visualizationTitle", i, IF ok THEN "img" ELSE "")>>

\* createDataTitleVisualization after its capture: an entry, or null when the
\* capture failed
createDataTitleVisualization(i, ok) ==
  IF ok THEN <<Entry("visualizationTitle", i, "img")>> ELSE <<>>

\* a panel's title capture settles; the panel's entries are complete
PanelTitleCaptured(i) ==
  /\ i \in ValidSet
  /\ panelTask[i] = "title"
  /\ ~MainReady
  /\ SetDom(captureEnd(Dom, PanelTitleEl(i), "default"))
  /\ \E ok \in BOOLEAN :
       panelViz' = [panelViz EXCEPT ![i] =
          addPageBreaks(
            createDataTitleVisualization(i, ok) \o <<Entry("Visualization", i, "img")>>,
            IndexOf(validPanels, i), Len(validPanels))]
  /\ panelTask' = [panelTask EXCEPT ![i] = "done"]
  /\ UNCHANGED <<inputVars, wiringVars, panels, styleVars, uiVars, pdfVars, images, footerPage,
                 visualizations, phaseTracker, phaseHistory, hideTimers, toasts, pc,
                 error, infoTask>>

\* Promise.all of the panel callbacks rejected: the finally block of
\* getVisualizationData restores the layout and waits
DgPanelsRejected ==
  /\ pc = "dg_panels"
  /\ \E i \in ValidSet : panelTask[i] = "failed"
  /\ restoreLayout
  /\ pc' = "dg_finally"
  /\ UNCHANGED <<inputVars, wiringVars, panels, domVars, uiVars, dgVars, pdfVars,
                 phaseTracker, phaseHistory, hideTimers, toasts, error, infoTask>>

\* Promise.all resolved: validatePanels, calculateTotalPages, and the first
\* iteration of createFooterImages up to its capture
DgPanelsJoined ==
  /\ pc = "dg_panels"
  /\ \A i \in ValidSet : panelTask[i] = "done"
  /\ footerPage' = 0
  /\ SetDom(captureBegin(Dom, FooterEl))
  /\ pc' = "dg_footers"
  /\ UNCHANGED <<inputVars, wiringVars, panels, styleVars, uiVars, pdfVars, panelTask, panelViz,
                 images, visualizations, phaseTracker, phaseHistory, hideTimers,
                 toasts, error, infoTask>>

\* createPageFooters
createPageFooters(imgs) ==
  [k \in 1..Len(imgs) |-> [type |-> "PageFooter", ref |-> k, data |-> imgs[k]]]

RECURSIVE Flatten(_, _, _)
\* panelVisualizations.flat() taking the panels from the last to the first
FlattenReversed(viz, valid, k) ==
  IF k > Len(valid) THEN <<>>
  ELSE Flatten(viz, valid, k + 1) \o viz[valid[k]]

\* panelVisualizations.flat(): Promise.all keeps the order of the panel array
Flatten(viz, valid, k) ==
  IF k > Len(valid) THEN <<>>
  ELSE viz[valid[k]] \o Flatten(viz, valid, k + 1)

\* assembleFinalVisualizations
assembleFinalVisualizations(img, tocImage, viz, valid) ==
  <<Entry("TableOfContents", 0, tocImage)>>
    \o createPageFooters(img.footers)
    \o <<Entry("DashboardTitle", 0, img.dashboardTitle),
         Entry("Header", 0, img.timeRange)>>
    \o Flatten(viz, valid, 1)

\* the loop condition of createFooterImages with the last page index left out
moreFootersStrict(page, totalPages) == page < totalPages

\* createFooterImages: the loop condition, page <= totalPages
moreFooters(page, totalPages) == page <= totalPages

\* footer text that ignores allowTableOfContents
footerTextRaw(allowToc, page, totalPages) ==
  "Page " \o ToString(page) \o " of " \o ToString(totalPages)

\* createFooterImages: the text of the footer generated for page index `page`
footerText(allowToc, page, totalPages) ==
  LET displayPage == IF allowToc THEN page ELSE page - 1
      displayTotalPages == IF allowToc THEN totalPages ELSE totalPages - 1
  IN  "Page " \o ToString(displayPage) \o " of " \o ToString(displayTotalPages)

\* one footer capture of createFooterImages settles; its failure is not caught.
\* After the last page: processTableOfContents up to its capture.
DgFooterCaptured ==
  /\ pc = "dg_footers"
  /\ LET d1 == captureEnd(Dom, FooterEl, "default")
         totalPages == calculateTotalPages(Len(validPanels))
     IN  \/ /\ images' = [images EXCEPT !.footers =
                           Append(@, footerText(allowTableOfContents, footerPage,
                                                totalPages))]
            /\ SetUi(progressCallback(Ui, "data_gathering", phaseTracker.phase))
            /\ IF moreFooters(footerPage + 1, totalPages)
               THEN /\ footerPage' = footerPage + 1
                    /\ SetDom(captureBegin(d1, FooterEl))
                    /\ pc' = "dg_footers"
               ELSE /\ footerPage' = footerPage
                    /\ SetDom(captureBegin(d1, TocEl))
                    /\ pc' = "dg_toc"
            /\ UNCHANGED <<styleVars, error>>
         \/ /\ \E msg \in CollaboratorErrors : error' = Thrown(msg)
            /\ SetDom(d1)
            /\ restoreLayout
            /\ pc' = "dg_finally"
            /\ UNCHANGED <<images, footerPage, uiVars>>
  /\ UNCHANGED <<inputVars, wiringVars, panels, pdfVars, panelTask, panelViz, visualizations,
                 phaseTracker, phaseHistory, hideTimers, toasts, infoTask>>

\* the table-of-contents capture settles (a failure is caught: empty image);
\* the entry sequence is assembled and the finally block restores the layout
DgTocCaptured ==
  /\ pc = "dg_toc"
  /\ SetDom(captureEnd(Dom, TocEl, "default"))
  /\ \E ok \in BOOLEAN :
       LET tocImage == IF ok THEN "img" ELSE ""
       IN  /\ images' = [images EXCEPT !.toc = tocImage]
           /\ visualizations' =
                 assembleFinalVisualizations(images, tocImage, panelViz, validPanels)
  /\ restoreLayout
  /\ pc' = "dg_finally"
  /\ UNCHANGED <<inputVars, wiringVars, panels, uiVars, pdfVars, panelTask, panelViz, footerPage,
                 phaseTracker, phaseHistory, hideTimers, toasts, error, infoTask>>

\* the wait in the finally block of getVisualizationData is over: the result
\* or the error reaches executePhase
DgFinallyDone ==
  /\ pc = "dg_finally"
  /\ pc' = IF error.thrown THEN "op_rejected" ELSE "op_resolved"
  /\ UNCHANGED <<inputVars, wiringVars, panels, styleVars, domVars, uiVars, dgVars, pdfVars,
                 phaseTracker, phaseHistory, hideTimers, toasts, error, infoTask>>

\* executePhase('info_retrieval', handleInformationRetrieval): the three
\* retrievals start; retrieveTenantInfo rejects at once when the user menu
\* (#actionsMenu) is absent
BeginInfoRetrieval ==
  /\ pc = "next"
  /\ phaseTracker.phase = "data_gathering"
  /\ phaseTracker' = [phase |-> "info_retrieval"]
  /\ SetUi(createProgressHandler(
             updateProgress(Ui, "info_retrieval", 0, 1, "info_retrieval"),
             "info_retrieval", 3))
  /\ \E actionsMenu \in BOOLEAN :
       IF actionsMenu
       THEN /\ infoTask' = [t \in DOMAIN infoTask |-> "pending"]
            /\ error' = error
       ELSE /\ infoTask' = [t \in DOMAIN infoTask |->
                              IF t = "tenant" THEN "failed" ELSE "pending"]
            /\ error' = Thrown("Tenant information retrieval failed")
  /\ pc' = "ir_wait"
  /\ UNCHANGED <<inputVars, wiringVars, panels, styleVars, domVars, dgVars, pdfVars,
                 phaseHistory, hideTimers, toasts>>

\* one retrieval's delay is over: it reads the DOM and reports progress
InfoRetrieved(t) ==
  /\ infoTask[t] = "pending"
  /\ ~MainReady
  /\ infoTask' = [infoTask EXCEPT ![t] = "done"]
  /\ SetUi(progressCallback(Ui, "info_retrieval", phaseTracker.phase))
  /\ UNCHANGED <<inputVars, wiringVars, panels, styleVars, domVars, dgVars, pdfVars,
                 phaseTracker, phaseHistory, hideTimers, toasts, pc, error>>

\* Promise.all of the three retrievals settles
InfoJoined ==
  /\ pc = "ir_wait"
  /\ InfoSettled
  /\ pc' = IF \E t \in DOMAIN infoTask : infoTask[t] = "failed"
           THEN "op_rejected" ELSE "op_resolved"
  /\ UNCHANGED <<inputVars, wiringVars, panels, styleVars, domVars, uiVars, dgVars, pdfVars,
                 phaseTracker, phaseHistory, hideTimers, toasts, error, infoTask>>

(* ------------------------------ PdfDocument ---------------------------- *)
RECURSIVE PairUp(_, _, _, _)
\* PdfDocument: titles and visualizations are paired in sequence order; a
\* visualization without a preceding title gets a synthesized empty title
PairUp(viz, k, pairs, currentPair) ==
  IF k > Len(viz) THEN pairs
  ELSE IF viz[k].type = "visualizationTitle"
       THEN PairUp(viz, k + 1,
                   IF Len(currentPair) > 0 THEN Append(pairs, currentPair) ELSE pairs,
                   <<viz[k]>>)
  ELSE IF viz[k].type = "Visualization"
       THEN PairUp(viz, k + 1,
                   Append(pairs,
                          Append(IF Len(currentPair) = 0
                                 THEN <<Entry("visualizationTitle", viz[k].ref, "")>>
                                 ELSE currentPair,
                                 viz[k])),
                   <<>>)
  ELSE PairUp(viz, k + 1, pairs, currentPair)

Pairs(viz) == PairUp(viz, 1, <<>>, <<>>)

\* PdfDocument: the first pair alone, then itemsPerPage = 2 pairs per page
Paginate(pairs) ==
  IF Len(pairs) = 0 THEN <<>>
  ELSE LET remainingPairs == SubSeq(pairs, 2, Len(pairs))
           chunks == (Len(remainingPairs) + 1) \div 2
       IN  <<<<pairs[1]>>>> \o
           [j \in 1..chunks |->
              SubSeq(remainingPairs, 2 * j - 1, Min(2 * j, Len(remainingPairs)))]

OfType(viz, type) == SelectSeq(viz, LAMBDA v : v.type = type)
\* Array.prototype.find: the first match, as a sequence of at most one entry
FirstOfType(viz, type) ==
  IF Len(OfType(viz, type)) = 0 THEN <<>> ELSE <<OfType(viz, type)[1]>>
\* pageFooters[index] && ... (index is 0-based)
FooterAt(pageFooters, index) ==
  IF index < Len(pageFooters) THEN <<pageFooters[index + 1]>> ELSE <<>>

\* PdfDocument with the dashboard title and the headers on every content page
PdfDocumentHeaderEverywhere(allowToc, viz) ==
  LET pageFooters == OfType(viz, "PageFooter")
      pages == Paginate(Pairs(viz))
  IN  (IF Len(FirstOfType(viz, "TableOfContents")) > 0 /\ allowToc
       THEN <<[kind |-> "toc", image |-> FirstOfType(viz, "TableOfContents"),
               dashboardTitle |-> <<>>, headers |-> <<>>, pairs |-> <<>>,
               footer |-> FooterAt(pageFooters, 0)]>>
       ELSE <<>>)
      \o [k \in 1..Len(pages) |->
            [kind |-> "content", image |-> <<>>,
             dashboardTitle |-> FirstOfType(viz, "DashboardTitle"),
             headers |-> OfType(viz, "Header"),
             pairs |-> pages[k],
             footer |-> FooterAt(pageFooters, ((k - 1) + 2) + 1)]]

\* PdfDocument: the <Page> elements of the document, in order (the logo, the
\* same on every page, is left out); pageIndex = k - 1, pageNumber = pageIndex + 2
PdfDocument(allowToc, viz) ==
  LET pageFooters == OfType(viz, "PageFooter")
      pages == Paginate(Pairs(viz))
  IN  (IF Len(FirstOfType(viz, "TableOfContents")) > 0 /\ allowToc
       THEN <<[kind |-> "toc", image |-> FirstOfType(viz, "TableOfContents"),
               dashboardTitle |-> <<>>, headers |-> <<>>, pairs |-> <<>>,
               footer |-> FooterAt(pageFooters, 0)]>>
       ELSE <<>>)
      \o [k \in 1..Len(pages) |->
            [kind |-> "content", image |-> <<>>,
             dashboardTitle |-> IF k - 1 = 0 THEN FirstOfType(viz, "DashboardTitle")
                                ELSE <<>>,
             headers |-> IF k - 1 = 0 THEN OfType(viz, "Header") ELSE <<>>,
             pairs |-> pages[k],
             footer |-> FooterAt(pageFooters, ((k - 1) + 2) + 1)]]

(* --------------------------- document assembly ------------------------- *)
\* a template document of n pages, as PDFDocument.load returns it
TemplateDocument(n) == [k \in 1..n |-> [doc |-> "template", index |-> k - 1]]

\* an output page: the copied page and the texts drawn on it
OutputPage(page, texts) == [page |-> page, texts |-> texts]

\* mergedPdf.copyPages(src, [index]) throws when src has no page at index
canCopy(src, index) == index < Len(src)

\* the three drawText calls of addCoverPage, in order
CoverTexts == <<"completeName", "dashboardName", "timestamp">>

\* addCoverPage: template page 0 with the cover texts drawn on it
addCoverPage(merged, template) ==
  Append(merged, OutputPage(template[0 + 1], CoverTexts))

\* addReportPages: every page of the content document, in getPageIndices order
addReportPages(merged, report) ==
  merged \o [k \in 1..Len(report) |-> OutputPage(report[k], <<>>)]

\* addFinalPage copying the cover page once more
addFinalPageCover(merged, template) ==
  Append(merged, OutputPage(template[0 + 1], <<>>))

\* addFinalPage: template page 1
addFinalPage(merged, template) ==
  Append(merged, OutputPage(template[1 + 1], <<>>))

\* mergePdfContent throws at the first copy of a page the template lacks
mergePdfContentThrows(template) ==
  ~canCopy(template, 0) \/ ~canCopy(template, 1)

\* mergePdfContent, no step failing: cover page, content pages, final page
mergePdfContent(template, report) ==
  addFinalPage(addReportPages(addCoverPage(<<>>, template), report), template)

\* executePhase('pdf_generation', handlePdfGeneration): template loading and
\* content-document generation start concurrently
BeginPdfGeneration ==
  /\ pc = "next"
  /\ phaseTracker.phase = "info_retrieval"
  /\ phaseTracker' = [phase |-> "pdf_generation"]
  /\ SetUi(createProgressHandler(
             updateProgress(Ui, "pdf_generation", 0, 1, "pdf_generation"),
             "pdf_generation", Len(visualizations)))
  /\ pdfTask' = [t \in DOMAIN pdfTask |-> "pending"]
  /\ pc' = "pg_load"
  /\ UNCHANGED <<inputVars, wiringVars, panels, styleVars, domVars, dgVars, loopIndex, tenant,
                 downloads, saves, docVars, phaseHistory, hideTimers, toasts, error,
                 infoTask>>

\* loadTemplatePdf / generateReportPdf settles; on success its then-callback
\* reports progress
PdfLoaded(t) ==
  /\ pdfTask[t] = "pending"
  /\ ~MainReady
  /\ \/ /\ pdfTask' = [pdfTask EXCEPT ![t] = "done"]
        /\ IF t = "template"
           THEN /\ \E n \in 0..MaxTemplatePages : templatePdf' = TemplateDocument(n)
                /\ UNCHANGED reportPdf
           ELSE /\ reportPdf' = PdfDocument(allowTableOfContents, visualizations)
                /\ UNCHANGED templatePdf
        /\ SetUi(progressCallback(Ui, "pdf_generation", phaseTracker.phase))
        /\ UNCHANGED error
     \/ /\ pdfTask' = [pdfTask EXCEPT ![t] = "failed"]
        /\ \E msg \in CollaboratorErrors :
              error' = IF pc = "pg_load" THEN Thrown(msg) ELSE error
        /\ UNCHANGED <<uiVars, templatePdf, reportPdf>>
  /\ UNCHANGED <<inputVars, wiringVars, panels, styleVars, domVars, dgVars, loopIndex, tenant,
                 downloads, saves, mergedPdf, mergedPdfBytes, phaseTracker, phaseHistory,
                 hideTimers, toasts, pc, infoTask>>

\* Promise.all that resolves although one of its promises rejected
loadRejectedIgnored(task) == FALSE

\* Promise.all([loadTemplatePdf, generateReportPdf]) rejects when one rejects
loadRejected(task) == \E t \in DOMAIN task : task[t] = "failed"

\* Promise.all of the two loads settles; mergePdfContent (cover page, fonts,
\* content pages, final page) and the first round of the progress loop
PdfLoadJoined ==
  /\ pc = "pg_load"
  /\ PdfLoadSettled
  /\ IF loadRejected(pdfTask)
     THEN /\ pc' = "op_rejected"
          /\ UNCHANGED <<uiVars, loopIndex, error, mergedPdf>>
     ELSE \/ /\ ~mergePdfContentThrows(templatePdf)
             /\ mergedPdf' = mergePdfContent(templatePdf, reportPdf)
             /\ SetUi(progressCallback(Ui, "pdf_generation", phaseTracker.phase))
             /\ loopIndex' = 1
             /\ pc' = "pg_loop"
             /\ UNCHANGED error
          \/ /\ \E msg \in CollaboratorErrors : error' = Thrown(msg)
             /\ pc' = "op_rejected"
             /\ UNCHANGED <<uiVars, loopIndex, mergedPdf>>
  /\ UNCHANGED <<inputVars, wiringVars, panels, styleVars, domVars, dgVars, pdfTask, tenant,
                 downloads, saves, templatePdf, reportPdf, mergedPdfBytes, phaseTracker,
                 phaseHistory, hideTimers, toasts,
                 infoTask>>

\* the next round of "for (const _ of visualizations)"
PdfLoopStep ==
  /\ pc = "pg_loop"
  /\ loopIndex < Len(visualizations)
  /\ loopIndex' = loopIndex + 1
  /\ SetUi(progressCallback(Ui, "pdf_generation", phaseTracker.phase))
  /\ UNCHANGED <<inputVars, wiringVars, panels, styleVars, domVars, dgVars, pdfTask, tenant,
                 downloads, saves, docVars, phaseTracker, phaseHistory, hideTimers,
                 toasts, pc, error, infoTask>>

\* the loop is over: mergedPdf.save(), then checkTenantAccess, which answers
\* false at once without an HTTP service (savePdfReport then throws)
PdfSerialized ==
  /\ pc = "pg_loop"
  /\ loopIndex >= Len(visualizations)
  /\ \/ /\ \E msg \in CollaboratorErrors : error' = Thrown(msg)
        /\ pc' = "op_rejected"
        /\ UNCHANGED mergedPdfBytes
     \/ /\ dependencies.http
        /\ mergedPdfBytes' = TRUE
        /\ pc' = "pg_tenant"
        /\ UNCHANGED error
     \/ /\ ~dependencies.http
        /\ mergedPdfBytes' = TRUE
        /\ error' = Thrown("HTTP service unavailable")
        /\ pc' = "op_rejected"
  /\ UNCHANGED <<inputVars, wiringVars, panels, styleVars, domVars, uiVars, dgVars, pdfTask,
                 loopIndex, tenant, downloads, saves, templatePdf, reportPdf, mergedPdf,
                 phaseTracker, phaseHistory, hideTimers, toasts, infoTask>>

\* tenants the /tenant endpoint may answer with; "error" is a failed request
TenantAnswers == {"__user__", "", "custom", "error"}

\* fetchTenantAndUser: response.tenant || '__user__', '__user__' on an error
fetchTenantAndUser(answer) ==
  IF answer \in {"", "error"} THEN "__user__" ELSE answer

\* checkTenantAccess granting every tenant access, so that nothing is saved
checkTenantAccessAlways(tenantName) == TRUE

\* checkTenantAccess: TRUE for the private or global tenant
checkTenantAccess(tenantName) == tenantName \in {"__user__", ""}

\* the tenant request settles: download at once, or save first (custom tenant)
PdfTenantResolved ==
  /\ pc = "pg_tenant"
  /\ \E answer \in TenantAnswers :
       /\ tenant' = fetchTenantAndUser(answer)
       /\ IF checkTenantAccess(fetchTenantAndUser(answer))
          THEN /\ downloads' = downloads + 1
               /\ pc' = "op_resolved"
          ELSE /\ downloads' = downloads
               /\ pc' = "pg_saving"
  /\ UNCHANGED <<inputVars, wiringVars, panels, styleVars, domVars, uiVars, dgVars, pdfTask,
                 loopIndex, saves, docVars, phaseTracker, phaseHistory, hideTimers,
                 toasts, error, infoTask>>

\* savePdfReport without its catch block: a failed save request is rethrown
savePdfReportUncaught(accepted) ==
  [saved |-> accepted, toast |-> IF accepted THEN "success" ELSE "error",
   thrown |-> ~accepted]

\* savePdfReport once the save request has settled: the success toast, or the
\* catch block with the error toast; nothing is rethrown
savePdfReport(accepted) ==
  [saved |-> accepted, toast |-> IF accepted THEN "success" ELSE "error",
   thrown |-> FALSE]

\* savePdfReport: the save request settles (a failure is caught and toasted),
\* then finalizePdfDownload
PdfSaveSettled ==
  /\ pc = "pg_saving"
  /\ \E accepted \in BOOLEAN :
       LET r == savePdfReport(accepted)
       IN  /\ saves' = IF r.saved THEN saves + 1 ELSE saves
           /\ toasts' = Toast(toasts, r.toast)
           /\ IF r.thrown
              THEN /\ error' = Thrown("Failed to save report")
                   /\ pc' = "op_rejected"
                   /\ UNCHANGED downloads
              ELSE /\ downloads' = downloads + 1
                   /\ pc' = "op_resolved"
                   /\ UNCHANGED error
  /\ UNCHANGED <<inputVars, wiringVars, panels, styleVars, domVars, uiVars, dgVars, pdfTask,
                 loopIndex, tenant, docVars, phaseTracker, phaseHistory, hideTimers,
                 infoTask>>

\* executePhase('success', handleSuccess)
BeginSuccess ==
  /\ pc = "next"
  /\ phaseTracker.phase = "pdf_generation"
  /\ phaseTracker' = [phase |-> "success"]
  /\ SetUi(showModal(updateProgress(Ui, "success", 0, 1, "success"),
                     phaseMessages["success"].message, "success", 100))
  /\ hideTimers' = hideTimers + 1
  /\ pc' = "op_resolved"
  /\ UNCHANGED <<inputVars, wiringVars, panels, styleVars, domVars, dgVars, pdfVars,
                 phaseHistory, toasts, error, infoTask>>

Next ==
  \/ SetDependencies
  \/ SetModalHandlers
  \/ GeneratePdfReport
  \/ ExecutePhaseReturn
  \/ ExecutePhaseThrow
  \/ BeginDataGathering
  \/ DgTimeRangeChecked
  \/ DgLayoutSettled
  \/ DgTitleCaptured
  \/ DgHeaderCaptured
  \/ \E i \in 1..MaxPanels : PanelCaptured(i)
  \/ \E i \in 1..MaxPanels : PanelTitleCaptured(i)
  \/ DgPanelsRejected
  \/ DgPanelsJoined
  \/ DgFooterCaptured
  \/ DgTocCaptured
  \/ DgFinallyDone
  \/ BeginInfoRetrieval
  \/ \E t \in {"tenant", "organization", "dashboard"} : InfoRetrieved(t)
  \/ InfoJoined
  \/ BeginPdfGeneration
  \/ \E t \in {"template", "report"} : PdfLoaded(t)
  \/ PdfLoadJoined
  \/ PdfLoopStep
  \/ PdfSerialized
  \/ PdfTenantResolved
  \/ PdfSaveSettled
  \/ BeginSuccess

Spec == Init /\ [][Next]_vars

(* ------------------- repeated runs on one service --------------------- *)
\* The report button calls generatePdfReport again on the same
\* ReportingService after a run has ended.  Here a phase operation is only
\* its outcome (resolved or rejected); executePhase, the progress updates,
\* handleSuccess and handleError are as in the code.

\* Date.now() - startTime: the code never inspects a duration, so the k-th
\* execution of a phase is given the duration k, which makes the insertion
\* order of the entries readable from their values.
nextDuration(phase) ==
  LET h == phaseHistory[phase]
  IN  IF Len(h) = 0 THEN 1 ELSE h[Len(h)] + 1

\* runs ended by handleError so far: every run schedules one hideModal and
\* every run that got through pdf_generation made one download
failedRuns == hideTimers - downloads

HistInit ==
  /\ Init
  /\ dependencies = NoDependencies
  /\ panels = <<>>
  /\ allowTableOfContents

\* generatePdfReport, first or repeated: executePhase('initialization', ..)
HistGeneratePdfReport ==
  /\ pc \in {"idle", "done", "failed"}
  /\ modalHandlers
  /\ hideTimers < MaxRuns
  /\ phaseTracker' = [phase |-> "initialization"]
  /\ LET u1 == updateProgress(Ui, "initialization", 0, 1, "initialization")
         u2 == showModal(u1, phaseMessages["initialization"].message, "loading",
                         calculateProgress("initialization", 0, 1))
     IN  SetUi(u2)
  /\ error' = NoError
  /\ pc' = "op_resolved"
  /\ UNCHANGED <<inputVars, wiringVars, panels, styleVars, domVars, dgVars, pdfVars,
                 phaseHistory, hideTimers, toasts, infoTask>>

\* executePhase after the operation resolved
HistExecutePhaseReturn ==
  /\ pc = "op_resolved"
  /\ LET phase == phaseTracker.phase
     IN  /\ SetUi(updateProgress(Ui, phase, 1, 1, phase))
         /\ phaseHistory' = updatePhaseHistory(phaseHistory, phase, nextDuration(phase))
         /\ pc' = IF phase = "success" THEN "done" ELSE "next"
  /\ UNCHANGED <<inputVars, wiringVars, panels, styleVars, domVars, dgVars, pdfVars,
                 phaseTracker, hideTimers, toasts, error, infoTask>>

\* executePhase's catch block, then generatePdfReport's catch block
HistExecutePhaseThrow ==
  /\ pc = "op_rejected"
  /\ phaseHistory' = updatePhaseHistory(phaseHistory, phaseTracker.phase,
                                        nextDuration(phaseTracker.phase))
  /\ SetUi(handleError(Ui, error))
  /\ hideTimers' = hideTimers + 1
  /\ pc' = "failed"
  /\ UNCHANGED <<inputVars, wiringVars, panels, styleVars, domVars, dgVars, pdfVars,
                 phaseTracker, toasts, error, infoTask>>

\* executePhase of data_gathering, info_retrieval or pdf_generation up to the
\* outcome of its operation
HistBeginPhase ==
  /\ pc = "next"
  /\ phaseTracker.phase \in {"initialization", "data_gathering", "info_retrieval"}
  /\ LET phase == Phases[PhaseIndex(phaseTracker.phase) + 1]
     IN  /\ phaseTracker' = [phase |-> phase]
         /\ SetUi(updateProgress(Ui, phase, 0, 1, phase))
         /\ \/ /\ pc' = "op_resolved"
               /\ downloads' = IF phase = "pdf_generation" THEN downloads + 1
                               ELSE downloads
               /\ UNCHANGED error
            \/ /\ failedRuns < MaxFailedRuns
               /\ \E msg \in CollaboratorErrors : error' = Thrown(msg)
               /\ pc' = "op_rejected"
               /\ UNCHANGED downloads
  /\ UNCHANGED <<inputVars, wiringVars, panels, styleVars, domVars, dgVars, pdfTask,
                 loopIndex, tenant, saves, docVars, phaseHistory, hideTimers, toasts,
                 infoTask>>

\* executePhase('success', handleSuccess)
HistBeginSuccess ==
  /\ pc = "next"
  /\ phaseTracker.phase = "pdf_generation"
  /\ phaseTracker' = [phase |-> "success"]
  /\ SetUi(showModal(updateProgress(Ui, "success", 0, 1, "success"),
                     phaseMessages["success"].message, "success", 100))
  /\ hideTimers' = hideTimers + 1
  /\ pc' = "op_resolved"
  /\ UNCHANGED <<inputVars, wiringVars, panels, styleVars, domVars, dgVars, pdfVars,
                 phaseHistory, toasts, error, infoTask>>

HistNext ==
  \/ SetModalHandlers
  \/ HistGeneratePdfReport
  \/ HistExecutePhaseReturn
  \/ HistExecutePhaseThrow
  \/ HistBeginPhase
  \/ HistBeginSuccess

HistorySpec == HistInit /\ [][HistNext]_vars

(* ------------------- functions applied to arguments -------------------- *)
\* titles of n validated panels, as validatePanels reads them from the DOM
PanelTitles(n) == [i \in 1..n |-> "panel" \o ToString(i)]

TocSection(title, page) == [title |-> title, page |-> page]

\* generateTocItems with every panel on a page of its own
generateTocItemsOnePerPage(titles, totalPages) ==
  <<TocSection("Cover Page", 1), TocSection("Report Contents", 2)>>
    \o [i \in 1..Len(titles) |-> TocSection(titles[i], 3 + (i - 1))]
    \o <<TocSection("Appendix", totalPages)>>

\* generateTocItems with the panels paired from the first one on
generateTocItemsPaired(titles, totalPages) ==
  <<TocSection("Cover Page", 1), TocSection("Report Contents", 2)>>
    \o [i \in 1..Len(titles) |-> TocSection(titles[i], 3 + (i - 1) \div 2)]
    \o <<TocSection("Appendix", totalPages)>>

\* generateTocItems: the sections array (index = i - 1 is the map index)
generateTocItems(titles, totalPages) ==
  <<TocSection("Cover Page", 1), TocSection("Report Contents", 2)>>
    \o [i \in 1..Len(titles) |-> TocSection(titles[i], 3 + ((i - 1) + 1) \div 2)]
    \o <<TocSection("Appendix", totalPages)>>

RECURSIVE footerLoop(_, _, _, _)
\* createFooterImages stopping before the last page index
footerLoopShort(allowToc, page, totalPages, footerImages) ==
  IF page + 1 <= totalPages
  THEN footerLoop(allowToc, page + 1, totalPages,
                  Append(footerImages, footerText(allowToc, page, totalPages)))
  ELSE footerImages

\* createFooterImages: for (let page = 0; page <= totalPages; page++), every
\* capture succeeding
footerLoop(allowToc, page, totalPages, footerImages) ==
  IF moreFooters(page, totalPages)
  THEN footerLoop(allowToc, page + 1, totalPages,
                  Append(footerImages, footerText(allowToc, page, totalPages)))
  ELSE footerImages

createFooterImages(allowToc, totalPages) == footerLoop(allowToc, 0, totalPages, <<>>)

\* Each behaviour applies one function of the service to one argument.
FuncInit ==
  /\ Init
  /\ panels = <<>>
  /\ allowTableOfContents

otherVars ==
  <<wiringVars, allowTableOfContents, serverVars, pluginVars, runs, panels, styleVars,
    domVars, uiVars, dgVars, pdfVars, phaseTracker, phaseHistory, hideTimers, toasts, pc,
    error, infoTask>>

ApplyCalculateProgress ==
  /\ probe.fn = "none"
  /\ \E phase \in PhaseSet, den \in 1..MaxDen :
       \E num \in (0 - MaxOvershoot)..(den + MaxOvershoot) :
          probe' = [NoProbe EXCEPT !.fn = "calculateProgress", !.phase = phase,
                                   !.num = num, !.den = den,
                                   !.out = calculateProgress(phase, num, den)]
  /\ UNCHANGED otherVars

ApplyCalculateTotalPages ==
  /\ probe.fn = "none"
  /\ \E n \in 0..MaxCount :
       probe' = [NoProbe EXCEPT !.fn = "calculateTotalPages", !.validCount = n,
                                !.out = calculateTotalPages(n)]
  /\ UNCHANGED otherVars

ApplyGenerateTocItems ==
  /\ probe.fn = "none"
  /\ \E n \in 0..MaxCount :
       probe' = [NoProbe EXCEPT !.fn = "generateTocItems", !.validCount = n,
                                !.out = generateTocItems(PanelTitles(n),
                                                         calculateTotalPages(n))]
  /\ UNCHANGED otherVars

ApplyCreateFooterImages ==
  /\ probe.fn = "none"
  /\ \E n \in 0..MaxCount, allowToc \in BOOLEAN :
       probe' = [NoProbe EXCEPT !.fn = "createFooterImages", !.validCount = n,
                                !.allowToc = allowToc,
                                !.out = createPageFooters(
                                   createFooterImages(allowToc, calculateTotalPages(n)))]
  /\ UNCHANGED otherVars

\* processVisualizationPanels: the array each panel callback returns (index =
\* i - 1 is the map index), every main capture succeeding and the title
\* capture succeeding for the panels in titled
panelCallback(i, totalPanels, titled) ==
  addPageBreaks(
    createDataTitleVisualization(i, i \in titled) \o <<Entry("Visualization", i, "img")>>,
    i - 1, totalPanels)

processVisualizationPanels(n, titled) ==
  [i \in 1..n |-> panelCallback(i, n, titled)]

ApplyProcessVisualizationPanels ==
  /\ probe.fn = "none"
  /\ \E n \in 0..MaxCount :
       \E titled \in SUBSET (1..n) :
          probe' = [NoProbe EXCEPT !.fn = "processVisualizationPanels",
                                   !.validCount = n, !.titled = titled,
                                   !.out = processVisualizationPanels(n, titled)]
  /\ UNCHANGED otherVars

\* getVisualizationData for n valid panels, every capture succeeding except
\* the title captures of the panels outside titled
visualizationData(n, titled, allowToc) ==
  assembleFinalVisualizations(
    [dashboardTitle |-> "img", timeRange |-> "img",
     footers |-> createFooterImages(allowToc, calculateTotalPages(n))],
    "img", processVisualizationPanels(n, titled), [i \in 1..n |-> i])

ApplyPdfDocument ==
  /\ probe.fn = "none"
  /\ \E n \in 1..MaxCount, allowToc \in BOOLEAN :
       \E titled \in SUBSET (1..n) :
          probe' = [NoProbe EXCEPT !.fn = "PdfDocument", !.validCount = n,
                                   !.allowToc = allowToc, !.titled = titled,
                                   !.out = PdfDocument(allowToc,
                                             visualizationData(n, titled, allowToc))]
  /\ UNCHANGED otherVars

\* capturePanelScreenshot as its caller sees it: what it returns or throws and
\* how often it invokes onProgress.  element: "null" or an element;
\* importOk: the dynamic import of html2canvas resolves; renderOk: html2canvas
\* resolves.  The guard and the import stand before the try block.
capturePanelScreenshot(element, onProgress, importOk, renderOk) ==
  IF element = "null"
  THEN [thrown |-> FALSE, data |-> "", onProgressCalls |-> 0]
  ELSE IF ~importOk
  THEN [thrown |-> TRUE, data |-> "", onProgressCalls |-> 0]
  ELSE [thrown |-> ~renderOk,
        data |-> IF renderOk THEN "img" ELSE "",
        onProgressCalls |-> IF onProgress THEN 1 ELSE 0]

ApplyCapturePanelScreenshot ==
  /\ probe.fn = "none"
  /\ \E element \in {"null", "element"}, onProgress, importOk, renderOk \in BOOLEAN :
       probe' = [NoProbe EXCEPT !.fn = "capturePanelScreenshot",
                                !.arg = [element |-> element, onProgress |-> onProgress,
                                         importOk |-> importOk, renderOk |-> renderOk],
                                !.out = capturePanelScreenshot(element, onProgress,
                                                               importOk, renderOk)]
  /\ UNCHANGED otherVars

\* hideUnwantedElements: the selectors the MutationObserver callback removes
selectorsToRemove ==
  {".euiPagination", ".euiDataGridRowCell__expandButton",
   "[data-test-embeddable-id] figcaption.embPanel__header", ".sibling-container",
   "#dataTableExportData", ".visLib__legend"}

\* what a node inserted into the clone can be: one of the decorative nodes, a
\* plain element, or a text node (no HTMLElement, no descendants)
NodeKinds == selectorsToRemove \cup {"div", "#text"}

\* the nodes that mutation.addedNodes can hold: the added node and the
\* elements below it
AddedNodes ==
  {[node |-> k, descendants |-> ds] :
     k \in NodeKinds \ {"#text"}, ds \in SUBSET (selectorsToRemove \cup {"div"})}
    \cup {[node |-> "#text", descendants |-> {}]}

\* the observer callback of hideUnwantedElements on one added node:
\* node.querySelectorAll(selector).forEach(el => el.remove()) for every
\* selector; querySelectorAll returns descendants of node, never node itself.
\* The value is what the insertion has left in the clone.
observerCallback(added) ==
  IF added.node = "#text" THEN added
  ELSE [added EXCEPT !.descendants = {d \in @ : d \notin selectorsToRemove}]

ApplyObserverCallback ==
  /\ probe.fn = "none"
  /\ \E added \in AddedNodes :
       probe' = [NoProbe EXCEPT !.fn = "hideUnwantedElements", !.arg = added,
                                !.out = observerCallback(added)]
  /\ UNCHANGED otherVars

\* the report of n validated panels as generateAndMergePdf assembles it from a
\* template of templatePages pages, together with the sections of the table
\* of contents that processTableOfContents has written for the same panels
reportOf(n, titled, allowToc, templatePages) ==
  [toc    |-> generateTocItems(PanelTitles(n), calculateTotalPages(n)),
   merged |-> mergePdfContent(TemplateDocument(templatePages),
                              PdfDocument(allowToc, visualizationData(n, titled, allowToc)))]

ApplyMergePdfContent ==
  /\ probe.fn = "none"
  /\ \E n \in 1..MaxCount, allowToc \in BOOLEAN, templatePages \in 2..MaxTemplatePages :
       \E titled \in {{}, 1..n} :
          probe' = [NoProbe EXCEPT !.fn = "mergePdfContent", !.validCount = n,
                                   !.allowToc = allowToc, !.titled = titled,
                                   !.arg = <<templatePages>>,
                                   !.out = reportOf(n, titled, allowToc, templatePages)]
  /\ UNCHANGED otherVars

FuncNext ==
  \/ ApplyMergePdfContent
  \/ ApplyObserverCallback
  \/ ApplyCalculateProgress
  \/ ApplyCalculateTotalPages
  \/ ApplyGenerateTocItems
  \/ ApplyCreateFooterImages
  \/ ApplyProcessVisualizationPanels
  \/ ApplyPdfDocument
  \/ ApplyCapturePanelScreenshot

FunctionSpec == FuncInit /\ [][FuncNext]_vars

(* --------------------------- server: routes ---------------------------- *)
\* the state of the reporting service and of the dashboard it reads
serviceVars ==
  <<wiringVars, allowTableOfContents, probe, panels, styleVars, domVars, uiVars,
    dgVars, pdfVars, phaseTracker, phaseHistory, hideTimers, toasts, pc, error,
    infoTask>>
\* what the server does not touch: the state of the browser
clientVars == <<serviceVars, pluginVars, runs>>

Handler(k) == handlers[k]
Respond(h, r) == [h EXCEPT !.pc = "done", !.response = r]
SetHandler(k, h) == handlers' = [handlers EXCEPT ![k] = h]

\* crypto.randomUUID(): an id no file and no pending save has
FreshIds ==
  {f \in FileIds :
     /\ reportsDirectory[f] = NoFile
     /\ \A k \in 1..MaxRequests :
          ~(Handler(k).route = "save" /\ Handler(k).fileId = f)}

\* a request arrives at one of the routes
ReceiveRequest(k) ==
  /\ Handler(k).pc = "unused"
  /\ \A j \in 1..(k - 1) : Handler(j).pc # "unused"
  /\ \E route \in Routes, user \in Users :
       \E fileId \in IF route \in {"download", "delete", "send_email"}
                     THEN FileIds ELSE {0},
          query \in IF route = "save" THEN SaveQueries ELSE {NoQuery} :
          /\ (route = "save") =>
                Cardinality({j \in 1..MaxRequests : Handler(j).route = "save"}) < MaxFiles
          /\ SetHandler(k, [NoHandler EXCEPT !.route = route, !.user = user,
                                             !.fileId = fileId, !.query = query,
                                             !.pc = "authinfo"])
  /\ UNCHANGED <<clientVars, reportsDirectory, metadataCache, emailRateLimits, clock, emails>>

\* authInfo.user_requested_tenant || DEFAULT_TENANT_NAME
tenantOf(user) ==
  IF user_requested_tenant(user) = "" THEN DEFAULT_TENANT_NAME
  ELSE user_requested_tenant(user)

\* the rate limit test of send_email
rateLimited(now, lastEmailTime) == now - lastEmailTime < tenMinutes

\* the route without the comparison of the file's tenant with the requester's
accessDeniedLoose(fileTenant, requester) == FALSE

\* if (fileTenant !== tenant) return response.forbidden('Access denied')
accessDenied(fileTenant, requester) == fileTenant # requester

\* download, delete and send_email once the file's metadata is known: what the
\* handler does up to its response or its next wait.  download answers with
\* the stream of fs.createReadStream, which does not throw when the file has
\* gone; unlinkSync does.
decide(h, fileTenant, dir, cache) ==
  IF accessDenied(fileTenant, h.tenant)
  THEN [h |-> Respond(h, "Access denied"), dir |-> dir, cache |-> cache]
  ELSE IF h.route = "download"
  THEN [h |-> Respond(h, "ok"), dir |-> dir, cache |-> cache]
  ELSE IF h.route = "delete"
  THEN IF dir[h.fileId].exists
       THEN [h |-> Respond(h, "ok"),
             dir |-> [dir EXCEPT ![h.fileId].exists = FALSE],
             cache |-> [cache EXCEPT ![h.fileId] = NoMetadata]]
       ELSE [h |-> Respond(h, "500"), dir |-> dir, cache |-> cache]
  ELSE [h |-> [h EXCEPT !.pc = "logo"], dir |-> dir, cache |-> cache]

\* download, delete and send_email from existsSync to the response or to the
\* wait inside extractPdfMetadata (cache hit: the cached metadata; miss:
\* readFileSync, then PDFDocument.load is awaited)
lookup(h, dir, cache) ==
  IF ~dir[h.fileId].exists
  THEN [h |-> Respond(h, "File not found"), dir |-> dir, cache |-> cache]
  ELSE IF cache[h.fileId].cached
  THEN decide(h, cache[h.fileId].tenant, dir, cache)
  ELSE [h |-> [h EXCEPT !.pc = "load", !.metadata = dir[h.fileId].subject],
        dir |-> dir, cache |-> cache]

RECURSIVE listFiles(_, _, _)
\* the loop of the reports route from file h.cursor on, up to the response or
\* to the wait inside extractPdfMetadata; h.metadata holds the snapshot of
\* readdirSync.  A file deleted since the snapshot throws in readFileSync or in
\* statSync, which the loop catches.
listFiles(h, dir, cache) ==
  IF h.cursor > MaxFiles THEN Respond(h, "ok")
  ELSE IF h.cursor \notin h.metadata
  THEN listFiles([h EXCEPT !.cursor = @ + 1], dir, cache)
  ELSE IF cache[h.cursor].cached
  THEN listFiles([h EXCEPT !.cursor = @ + 1,
                           !.reports = IF cache[h.cursor].tenant = h.tenant
                                          /\ dir[h.cursor].exists
                                       THEN @ \cup {h.cursor} ELSE @],
                 dir, cache)
  ELSE IF ~dir[h.cursor].exists
  THEN listFiles([h EXCEPT !.cursor = @ + 1], dir, cache)
  ELSE [h EXCEPT !.pc = "list_load"]

\* the authinfo request of a handler settles; the handler runs to its
\* response or to its next wait
AuthInfoSettled(k) ==
  LET h == Handler(k)
      t == [h EXCEPT !.tenant = tenantOf(h.user)]
  IN  /\ h.pc = "authinfo"
      /\ \/ /\ SetHandler(k, Respond(h, "500"))
            /\ UNCHANGED <<reportsDirectory, metadataCache>>
         \/ /\ h.route = "save"
            /\ \E f \in FreshIds :
                 SetHandler(k, [t EXCEPT !.fileId = f, !.pc = "inject"])
            /\ UNCHANGED <<reportsDirectory, metadataCache>>
         \/ /\ h.route = "reports"
            /\ SetHandler(k, listFiles(
                  [t EXCEPT !.cursor = 1,
                            !.metadata = {f \in FileIds : reportsDirectory[f].exists}],
                  reportsDirectory, metadataCache))
            /\ UNCHANGED <<reportsDirectory, metadataCache>>
         \/ /\ h.route \in {"download", "delete"}
            /\ LET r == lookup(t, reportsDirectory, metadataCache)
               IN  /\ SetHandler(k, r.h)
                   /\ reportsDirectory' = r.dir
                   /\ metadataCache' = r.cache
         \/ /\ h.route = "send_email"
            /\ LET n == [t EXCEPT !.now = clock]
                   r == lookup(n, reportsDirectory, metadataCache)
               IN  IF rateLimited(clock, emailRateLimits[h.user])
                   THEN /\ SetHandler(k, Respond(n, "rate limited"))
                        /\ UNCHANGED <<reportsDirectory, metadataCache>>
                   ELSE /\ SetHandler(k, r.h)
                        /\ reportsDirectory' = r.dir
                        /\ metadataCache' = r.cache
      /\ UNCHANGED <<clientVars, emailRateLimits, clock, emails>>

\* PDFDocument.load inside extractPdfMetadata resolves: metadataCache.set, then
\* the handler goes on
MetadataLoaded(k) ==
  LET h == Handler(k)
      c == [metadataCache EXCEPT ![h.fileId] = [cached |-> TRUE, tenant |-> h.metadata]]
      r == decide(h, h.metadata, reportsDirectory, c)
  IN  /\ h.pc = "load"
      /\ SetHandler(k, r.h)
      /\ reportsDirectory' = r.dir
      /\ metadataCache' = r.cache
      /\ UNCHANGED <<clientVars, emailRateLimits, clock, emails>>

\* the same inside the loop of the reports route; the file read was the one
\* at h.cursor, its subject is still in the directory entry
ListLoaded(k) ==
  LET h == Handler(k)
      f == h.cursor
      c == [metadataCache EXCEPT ![f] = [cached |-> TRUE,
                                         tenant |-> reportsDirectory[f].subject]]
  IN  /\ h.pc = "list_load"
      /\ metadataCache' = c
      /\ SetHandler(k, listFiles(
            [h EXCEPT !.pc = "list", !.cursor = f + 1,
                      !.reports = IF reportsDirectory[f].subject = h.tenant
                                     /\ reportsDirectory[f].exists
                                  THEN @ \cup {f} ELSE @],
            reportsDirectory, c))
      /\ UNCHANGED <<clientVars, reportsDirectory, emailRateLimits, clock, emails>>

\* the save route with the tenant taken from the request's query parameters
injectedTenantFromQuery(h) ==
  IF h.query.tenant = "" THEN h.tenant ELSE h.query.tenant

\* the tenant of injectPdfMetadata(pdfBytes, { tenant, fileName }): the one
\* derived from authinfo; request.query.tenant and .dashboard are not read
injectedTenant(h) == h.tenant

\* save: the body is read and injectPdfMetadata resolves; the file is written
FileWritten(k) ==
  LET h == Handler(k)
  IN  /\ h.pc = "inject"
      /\ \/ /\ reportsDirectory' =
                 [reportsDirectory EXCEPT ![h.fileId] =
                     [exists |-> TRUE, subject |-> injectedTenant(h)]]
            /\ SetHandler(k, Respond(h, "ok"))
         \/ /\ SetHandler(k, Respond(h, "500"))
            /\ UNCHANGED reportsDirectory
      /\ UNCHANGED <<clientVars, metadataCache, emailRateLimits, clock, emails>>

\* send_email: readFileAsBase64 of the logo settles; readFileSync of the report
LogoRead(k) ==
  LET h == Handler(k)
  IN  /\ h.pc = "logo"
      /\ \/ /\ reportsDirectory[h.fileId].exists
            /\ SetHandler(k, [h EXCEPT !.pc = "sendMail"])
         \/ SetHandler(k, Respond(h, "500"))
      /\ UNCHANGED <<clientVars, reportsDirectory, metadataCache, emailRateLimits, clock, emails>>

\* send_email: transporter.sendMail settles; emailRateLimits.set(username, now)
MailSettled(k) ==
  LET h == Handler(k)
  IN  /\ h.pc = "sendMail"
      /\ \/ /\ emails' = emails \cup
                 {[request |-> k, user |-> h.user, tenant |-> h.tenant,
                   fileId |-> h.fileId, now |-> h.now]}
            /\ emailRateLimits' = [emailRateLimits EXCEPT ![h.user] = h.now]
            /\ SetHandler(k, Respond(h, "ok"))
         \/ /\ SetHandler(k, Respond(h, "500"))
            /\ UNCHANGED <<emails, emailRateLimits>>
      /\ UNCHANGED <<clientVars, reportsDirectory, metadataCache, clock>>

\* time passes, half a cooldown at a time
Tick ==
  /\ clock + (tenMinutes \div 2) <= MaxClock
  /\ clock' = clock + (tenMinutes \div 2)
  /\ UNCHANGED <<clientVars, reportsDirectory, metadataCache, emailRateLimits, handlers, emails>>

ServerInit ==
  /\ Init
  /\ panels = <<>>
  /\ allowTableOfContents

ServerNext ==
  \/ \E k \in 1..MaxRequests : ReceiveRequest(k)
  \/ \E k \in 1..MaxRequests : AuthInfoSettled(k)
  \/ \E k \in 1..MaxRequests : MetadataLoaded(k)
  \/ \E k \in 1..MaxRequests : ListLoaded(k)
  \/ \E k \in 1..MaxRequests : FileWritten(k)
  \/ \E k \in 1..MaxRequests : LogoRead(k)
  \/ \E k \in 1..MaxRequests : MailSettled(k)
  \/ Tick

ServerSpec == ServerInit /\ [][ServerNext]_vars

(* ------------------- plugin: the navigation control ------------------- *)
\* the values currentAppId$ emits ("" for undefined)
AppIds == {"dashboards", "home", ""}

\* the cleanup function mount returned for control c, called by the chrome or
\* never: if (this.currentElement) { unmount; remove; currentElement = null }
cleanup(element, count) ==
  IF element THEN [currentElement |-> FALSE, containers |-> count - 1]
  ELSE [currentElement |-> element, containers |-> count]

\* unregisterNavControl: the unregister function, if registerCenter returned
\* one, takes the control out of the chrome (a mounted control is then cleaned
\* up by the chrome); the container in currentElement is removed
unregisterNavControl ==
  LET c == navControlUnregister
      r == cleanup(currentElement, containers)
  IN  /\ navControls' =
             IF c = 0 THEN navControls
             ELSE [navControls EXCEPT ![c] = IF @ = "mounted" THEN "removing" ELSE "gone"]
      /\ navControlUnregister' = 0
      /\ currentElement' = r.currentElement
      /\ containers' = r.containers

\* registerNavControl: nothing when navControlUnregister is set; otherwise the
\* control is registered with the chrome and what registerCenter returns is
\* kept: undefined, or a function that unregisters the control
registerNavControl ==
  IF navControlUnregister # 0
  THEN UNCHANGED <<navControls, navControlUnregister>>
  ELSE LET c == Cardinality({d \in 1..MaxAppChanges : navControls[d] # "none"}) + 1
       IN  /\ navControls' = [navControls EXCEPT ![c] = "registered"]
           /\ navControlUnregister' \in {0, c}

\* currentAppId$ emits: the subscription handler up to its first wait.
\* cachedHasRole has just been reset, so checkUserRoles asks the server.
AppChanged ==
  /\ appChanges < MaxAppChanges
  /\ appChanges' = appChanges + 1
  /\ \E appId \in AppIds :
       /\ currentAppId' = appId
       /\ cachedHasRole' = "null"
       /\ IF appId = "dashboards"
          THEN /\ pendingRoleChecks' = pendingRoleChecks + 1
               /\ UNCHANGED <<navControls, navControlUnregister, currentElement, containers>>
          ELSE /\ unregisterNavControl
               /\ UNCHANGED pendingRoleChecks
  /\ UNCHANGED <<isAuthorized, serviceVars, serverVars, runs>>

\* the user_roles request of one handler settles: checkUserRoles caches the
\* answer (false when the request failed), handleDashboardAuthorization
\* stores it and calls registerNavControl
RoleCheckSettled ==
  /\ pendingRoleChecks > 0
  /\ pendingRoleChecks' = pendingRoleChecks - 1
  /\ \E outcome \in {"true", "false", "rejected"} :
       /\ cachedHasRole' = IF outcome = "true" THEN "true" ELSE "false"
       /\ isAuthorized' = (outcome = "true")
  /\ registerNavControl
  /\ UNCHANGED <<currentAppId, currentElement, containers, appChanges,
                 serviceVars, serverVars, runs>>

\* the chrome renders a registered control and calls its mount callback:
\* if (this.currentElement) return () => {}; otherwise the container with the
\* button is appended and kept in currentElement
ChromeMounts(c) ==
  /\ navControls[c] = "registered"
  /\ IF currentElement
     THEN /\ navControls' = [navControls EXCEPT ![c] = "empty"]
          /\ UNCHANGED <<currentElement, containers>>
     ELSE /\ navControls' = [navControls EXCEPT ![c] = "mounted"]
          /\ currentElement' = TRUE
          /\ containers' = containers + 1
  /\ UNCHANGED <<currentAppId, cachedHasRole, isAuthorized, navControlUnregister,
                 pendingRoleChecks, appChanges, serviceVars, serverVars, runs>>

\* the chrome drops an unregistered control that had mounted the button and
\* calls the cleanup function its mount callback returned
ChromeUnmounts(c) ==
  /\ navControls[c] = "removing"
  /\ navControls' = [navControls EXCEPT ![c] = "gone"]
  /\ LET r == cleanup(currentElement, containers)
     IN  /\ currentElement' = r.currentElement
         /\ containers' = r.containers
  /\ UNCHANGED <<currentAppId, cachedHasRole, isAuthorized, navControlUnregister,
                 pendingRoleChecks, appChanges, serviceVars, serverVars, runs>>

PluginInit ==
  /\ Init
  /\ panels = <<>>
  /\ allowTableOfContents

PluginNext ==
  \/ AppChanged
  \/ RoleCheckSettled
  \/ \E c \in 1..MaxAppChanges : ChromeMounts(c)
  \/ \E c \in 1..MaxAppChanges : ChromeUnmounts(c)

PluginSpec == PluginInit /\ [][PluginNext]_vars

(* ---------------- two invocations of generatePdfReport ---------------- *)
\* The report button has no in-progress guard: handleGenerateReport calls
\* generatePdfReport again while an earlier call is running.  Each call of
\* preparePanelDimensions has its own originalStyles map and returns its own
\* restore closure; both work on the same panel elements.  This specification
\* follows the two invocations through the steps that touch the inline styles;
\* the captures between them leave these styles alone (captureBegin,
\* captureEnd), and the progress and modal bookkeeping is that of Spec.
RunLayout(r, i) ==
  [root |-> rootStyle[i], emb |-> embStyle[i],
   snapRoot |-> runs[r].originalStyles[i].root,
   snapEmb |-> runs[r].originalStyles[i].emb,
   stored |-> FALSE]

\* handleGenerateReport: generatePdfReport is invoked; the second invocation
\* is made while the first is still running
RunInvoked(r) ==
  /\ runs[r].pc = "idle"
  /\ (r = 2) => runs[1].pc \in {"running", "prepared"}
  /\ runs' = [runs EXCEPT ![r].pc = "running"]
  /\ UNCHANGED <<serviceVars, serverVars, pluginVars>>

\* the invocation reaches getVisualizationData: it throws when no panel is
\* valid (or ends earlier, in initialization or getTimeRange); otherwise
\* preparePanelDimensions snapshots the current inline styles into its own
\* map and applies the capture geometry
RunPrepares(r) ==
  /\ runs[r].pc = "running"
  /\ \/ /\ runs' = [runs EXCEPT ![r].pc = "finished"]
        /\ UNCHANGED <<rootStyle, embStyle>>
     \/ /\ ~noValidPanels(validPanels)
        /\ LET after == [i \in 1..MaxPanels |->
                           IF i \in ValidSet
                           THEN ApplyProbes(RunLayout(r, i), panels[i], 1)
                           ELSE RunLayout(r, i)]
           IN  /\ rootStyle' = [i \in 1..MaxPanels |-> after[i].root]
               /\ embStyle' = [i \in 1..MaxPanels |-> after[i].emb]
               /\ runs' = [runs EXCEPT ![r] =
                     [pc |-> "prepared",
                      originalStyles |-> [i \in 1..MaxPanels |->
                          [stored |-> after[i].stored, root |-> after[i].snapRoot,
                           emb |-> after[i].snapEmb]]]]
  /\ UNCHANGED <<wiringVars, allowTableOfContents, probe, panels, originalStyles, domVars,
                 uiVars, dgVars, pdfVars, phaseTracker, phaseHistory, hideTimers, toasts,
                 pc, error, infoTask, serverVars, pluginVars>>

\* the finally block of getVisualizationData of the invocation: restoreLayout(),
\* the closure over the invocation's own map; the rest of the run leaves the
\* styles alone
RunRestores(r) ==
  /\ runs[r].pc = "prepared"
  /\ LET after == [i \in 1..MaxPanels |->
                     restoreOne([RunLayout(r, i) EXCEPT
                                   !.stored = runs[r].originalStyles[i].stored])]
     IN  /\ rootStyle' = [i \in 1..MaxPanels |-> after[i].root]
         /\ embStyle' = [i \in 1..MaxPanels |-> after[i].emb]
  /\ runs' = [runs EXCEPT ![r].pc = "finished"]
  /\ UNCHANGED <<wiringVars, allowTableOfContents, probe, panels, originalStyles, domVars,
                 uiVars, dgVars, pdfVars, phaseTracker, phaseHistory, hideTimers, toasts,
                 pc, error, infoTask, serverVars, pluginVars>>

ConcurrentInit ==
  /\ Init
  /\ allowTableOfContents

ConcurrentNext ==
  \/ \E r \in 1..2 : RunInvoked(r)
  \/ \E r \in 1..2 : RunPrepares(r)
  \/ \E r \in 1..2 : RunRestores(r)

ConcurrentSpec == ConcurrentInit /\ [][ConcurrentNext]_vars

(* ------------------------------- claims -------------------------------- *)
StylesUntouched ==
  \A i \in 1..MaxPanels :
     rootStyle[i] = InitialRootStyle /\ embStyle[i] = InitialEmbStyle

ErrorCalls == {k \in DOMAIN modalCalls : modalCalls[k].type = "error"}

\* C1: the phases start in the fixed order, each only from the state in which
\* the previous one has returned successfully; once an error is in flight no
\* phase is started any more, the run ends in the failed state and stays
\* there; no phase is recorded twice in one run.
C1_PhaseOrder ==
  [][ /\ (phaseTracker'.phase # phaseTracker.phase) =>
           /\ pc = IF phaseTracker.phase = "none" THEN "idle" ELSE "next"
           /\ ~error.thrown
           /\ PhaseIndex(phaseTracker'.phase) =
                 IF phaseTracker.phase = "none" THEN 1
                 ELSE PhaseIndex(phaseTracker.phase) + 1
      /\ error.thrown => (error' = error /\ phaseTracker' = phaseTracker)
      /\ pc = "op_rejected" => pc' = "failed"
      /\ pc = "failed" => pc' = "failed"
      /\ \A ph \in PhaseSet : Len(phaseHistory'[ph]) <= 1 ]_vars

C1_Witness ==
  /\ pc = "failed"
  /\ phaseTracker.phase = "info_retrieval"
  /\ Len(phaseHistory["data_gathering"]) = 1

\* C2 (as claimed): right after the restore closure has run, every panel's
\* grid cell and panel body have the inline style they had before
\* preparePanelDimensions.
C2_LayoutRestored == pc = "dg_finally" => StylesUntouched

\* C3 (as claimed): once a panel's capturePanelScreenshot call has returned or
\* thrown, no clone of the panel is attached to the document and the panel's
\* inline visibility is what it was before the call.
C3_CaptureCleanedUp ==
  \A i \in ValidSet :
     panelTask[i] \in {"title", "done", "failed"} =>
        /\ \A c \in clones : c[1] # PanelEl(i)
        /\ visibility[PanelEl(i)] = InitialVisibility

\* C4: with no valid panel the run never gets past the validation of
\* getVisualizationData: preparePanelDimensions is not called, no snapshot is
\* stored, no style is changed, and unless an earlier check failed the error
\* is the no-valid-panels error.
C4_NoValidPanels ==
  Len(validPanels) = 0 =>
     /\ pc \in {"idle", "op_resolved", "next", "dg_time_range", "op_rejected", "failed"}
     /\ phaseTracker.phase \in {"none", "initialization", "data_gathering"}
     /\ \A i \in 1..MaxPanels : ~originalStyles[i].stored
     /\ StylesUntouched
     /\ (error.thrown /\ validateDashboardServices(dependencies)
           /\ error.message # "No Dashboard selected")
          => error.message = "No report content available"

C4_Witness ==
  /\ Len(panels) > 0
  /\ Len(validPanels) = 0
  /\ pc = "failed"
  /\ error.message = "No report content available"

\* C5 (as claimed): the step in which the capture of the dashboard title, of a
\* page footer or of the table of contents settles never raises an error.
C5_AuxiliaryFailureNonFatal ==
  [][ (pc \in {"dg_title", "dg_footers", "dg_toc"}) => ~error'.thrown ]_vars

\* C6 (as claimed): every finished panel has a title entry in its entries.
C6_TitleEntryPresent ==
  \A i \in ValidSet :
     panelTask[i] = "done" =>
        \E k \in DOMAIN panelViz[i] : panelViz[i][k].type = "visualizationTitle"

\* C6 (amended): a failed title capture leaves no title entry and the run can
\* still succeed: the entry sequence never holds a title entry with an empty data
\* slot; every finished panel has exactly one main visualization entry; and
\* PdfDocument pairs every panel's visualization, in panel order, with its
\* title entry or with a synthesized title whose data slot is empty.
C6_TitleFailureOmitsEntry ==
  /\ \A i \in ValidSet :
        panelTask[i] = "done" =>
             /\ Cardinality({k \in DOMAIN panelViz[i] :
                               panelViz[i][k] = Entry("Visualization", i, "img")}) = 1
             /\ \A k \in DOMAIN panelViz[i] :
                   panelViz[i][k].type = "visualizationTitle" => panelViz[i][k].data # ""
  /\ Len(visualizations) > 0 =>
        LET prs == Pairs(visualizations)
        IN  /\ Len(prs) = Len(validPanels)
            /\ \A k \in DOMAIN prs :
                  /\ Len(prs[k]) = 2
                  /\ prs[k][2] = Entry("Visualization", validPanels[k], "img")
                  /\ prs[k][1].type = "visualizationTitle"
                  /\ prs[k][1].ref = validPanels[k]
                  /\ (prs[k][1].data = "") <=>
                        (\A j \in DOMAIN panelViz[validPanels[k]] :
                            panelViz[validPanels[k]][j].type # "visualizationTitle")

C6_Witness ==
  /\ pc = "done"
  /\ \E i \in ValidSet :
        \A k \in DOMAIN panelViz[i] : panelViz[i][k].type # "visualizationTitle"

\* C7 (as claimed): while a required collaborator is absent no phase is
\* started, no progress update reaches the modal host and no phase duration
\* is recorded.
C7_AbortsBeforeAnyPhase ==
  ~validateDashboardServices(dependencies) =>
     /\ phaseTracker.phase = "none"
     /\ modalCalls = <<>>
     /\ \A ph \in PhaseSet : phaseHistory[ph] = <<>>

\* C8 (as claimed): a failed run has issued exactly one error display, with
\* the error's message or the generic phase message, and has scheduled
\* exactly one hideModal.
C8_SingleErrorDisplay ==
  pc = "failed" =>
     /\ Cardinality(ErrorCalls) = 1
     /\ \A k \in ErrorCalls :
           modalCalls[k].message =
              IF error.message # "" THEN error.message
              ELSE phaseMessages["data_gathering"].message
     /\ hideTimers = 1

\* C9 (as claimed): the percentages of consecutive showModal calls never
\* decrease.
C9_PercentagesMonotone ==
  \A k \in 1..(Len(modalCalls) - 1) :
     modalCalls[k].progress <= modalCalls[k + 1].progress

\* C9 (amended): the percentages of the loading and success displays never
\* decrease, whatever the order in which captures and retrievals complete;
\* every error display carries 0.
C9_ProgressDisplaysMonotone ==
  /\ \A j, k \in DOMAIN modalCalls :
        (j < k /\ modalCalls[j].type # "error" /\ modalCalls[k].type # "error")
           => modalCalls[j].progress <= modalCalls[k].progress
  /\ \A k \in ErrorCalls : modalCalls[k].progress = 0
  /\ \A k \in DOMAIN modalCalls : modalCalls[k].progress \in 0..100

C9_Witness ==
  /\ pc = "done"
  /\ Len(validPanels) = MaxPanels
  /\ \E j, k \in DOMAIN modalCalls :
        /\ j < k
        /\ modalCalls[j].message = phaseMessages["data_gathering"].message
        /\ modalCalls[k].message = phaseMessages["data_gathering"].message
        /\ modalCalls[j].progress < modalCalls[k].progress

\* C10: the step in which executePhase leaves its operation, resolved or
\* rejected, appends exactly one duration to the history of the executed phase
\* (dropping the oldest entry beyond MaxHistory) and leaves the other phases'
\* histories alone; on a rejection the error is unchanged, it is the one
\* handleError displays, and the run is failed.  No other step changes a
\* history.
C10_ExecutePhaseRecords ==
  [][ IF pc \in {"op_resolved", "op_rejected"}
      THEN LET ph == phaseTracker.phase
               old == phaseHistory[ph]
               new == phaseHistory'[ph]
           IN  /\ Len(new) = Min(Len(old) + 1, MaxHistory)
               /\ new[Len(new)] \in Durations
               /\ \A k \in 1..(Len(new) - 1) :
                     new[k] = old[k + (Len(old) + 1 - Len(new))]
               /\ \A o \in PhaseSet \ {ph} : phaseHistory'[o] = phaseHistory[o]
               /\ pc = "op_rejected" =>
                     /\ error.thrown /\ error' = error
                     /\ pc' = "failed"
                     /\ modalCalls' = Append(modalCalls,
                           ModalCall(IF error.message # "" THEN error.message
                                     ELSE phaseMessages["data_gathering"].message,
                                     "error", 0))
      ELSE phaseHistory' = phaseHistory ]_vars

C10_Witness ==
  /\ pc = "failed"
  /\ phaseTracker.phase = "data_gathering"
  /\ Len(phaseHistory["initialization"]) = 1
  /\ Len(phaseHistory["data_gathering"]) = 1

\* C11: whatever runs a service has gone through, every phase's history holds
\* at most MaxHistory entries and holds the most recent durations of the
\* phase in insertion order: consecutive executions, the oldest first, and
\* nothing is missing at the front unless the history is full.
C11_HistoryBounded ==
  \A ph \in PhaseSet :
     LET h == phaseHistory[ph]
     IN  /\ Len(h) <= MaxHistory
         /\ \A k \in 1..(Len(h) - 1) : h[k + 1] = h[k] + 1
         /\ Len(h) > 0 => (h[1] = 1 \/ Len(h) = MaxHistory)

C11_Witness ==
  /\ Len(phaseHistory["initialization"]) = MaxHistory
  /\ phaseHistory["initialization"][1] = 3
  /\ Len(phaseHistory["success"]) = MaxHistory
  /\ phaseHistory["success"][1] = 1

PercentAtStart ==
  [initialization |-> 0, data_gathering |-> 5, info_retrieval |-> 70,
   pdf_generation |-> 90, success |-> 95]

PercentAtEnd ==
  [initialization |-> 5, data_gathering |-> 70, info_retrieval |-> 90,
   pdf_generation |-> 95, success |-> 100]

\* C12: the five weights add up to 100 hundredths; calculateProgress(phase, 1)
\* is 5, 70, 90, 95, 100 and calculateProgress(phase, 0) is 0, 5, 70, 90, 95
\* for the phases in their order.
C12_PhaseWeights ==
  /\ SumWeights(Len(Phases)) = 100
  /\ probe.fn = "calculateProgress" =>
        /\ probe.num = probe.den => probe.out = PercentAtEnd[probe.phase]
        /\ probe.num = 0 => probe.out = PercentAtStart[probe.phase]

C12_Witness ==
  /\ probe.fn = "calculateProgress"
  /\ probe.phase = "info_retrieval"
  /\ probe.num = probe.den
  /\ probe.den = 3
  /\ probe.out = 90

\* C13: for a fixed phase calculateProgress never decreases when the fraction
\* grows, treats a fraction below 0 as 0 and one above 1 as 1, and stays
\* between the phase's start and end percentage.
C13_MonotoneAndClamped ==
  probe.fn = "calculateProgress" =>
     /\ \A den \in 1..MaxDen :
           \A num \in (0 - MaxOvershoot)..(den + MaxOvershoot) :
              num * probe.den <= probe.num * den =>
                 calculateProgress(probe.phase, num, den) <= probe.out
     /\ probe.num < 0 => probe.out = calculateProgress(probe.phase, 0, 1)
     /\ probe.num > probe.den => probe.out = calculateProgress(probe.phase, 1, 1)
     /\ PercentAtStart[probe.phase] <= probe.out
     /\ probe.out <= PercentAtEnd[probe.phase]

C13_Witness ==
  /\ probe.fn = "calculateProgress"
  /\ probe.phase = "data_gathering"
  /\ probe.num = probe.den + MaxOvershoot
  /\ probe.out = 70

\* C14 (as claimed): calculateTotalPages(N) is 3, 4, 4, 5, 5, 6 for N = 0..5.
C14_TotalPagesAsListed ==
  (probe.fn = "calculateTotalPages" /\ probe.validCount <= 5) =>
     probe.out = <<3, 4, 4, 5, 5, 6>>[probe.validCount + 1]

\* C14 (amended): calculateTotalPages(N) is 3 for N = 0 and 3 + 1 +
\* ceil((N - 1) / 2) otherwise, that is 3, 4, 5, 5, 6, 6 for N = 0..5, and
\* never decreases with N.
C14_TotalPages ==
  probe.fn = "calculateTotalPages" =>
     LET n == probe.validCount
     IN  /\ probe.out = IF n = 0 THEN 3 ELSE 4 + n \div 2
         /\ n <= 5 => probe.out = <<3, 4, 5, 5, 6, 6>>[n + 1]
         /\ \A m \in 0..n : calculateTotalPages(m) <= probe.out

C14_Witness ==
  /\ probe.fn = "calculateTotalPages"
  /\ probe.validCount = 2
  /\ probe.out = 5

\* C15: generateTocItems lists Cover Page at 1, Report Contents at 2, the
\* panels in their order with panel i (from 0) at 3 + floor((i + 1) / 2), and
\* Appendix at totalPages; every panel's page is above 2 and below totalPages.
C15_TocItems ==
  probe.fn = "generateTocItems" =>
     LET n == probe.validCount
         totalPages == calculateTotalPages(n)
     IN  /\ Len(probe.out) = n + 3
         /\ probe.out[1] = TocSection("Cover Page", 1)
         /\ probe.out[2] = TocSection("Report Contents", 2)
         /\ probe.out[n + 3] = TocSection("Appendix", totalPages)
         /\ \A i \in 0..(n - 1) :
               /\ probe.out[3 + i].title = PanelTitles(n)[i + 1]
               /\ probe.out[3 + i].page = 3 + (i + 1) \div 2
               /\ 2 < probe.out[3 + i].page
               /\ probe.out[3 + i].page < totalPages

C15_Witness ==
  /\ probe.fn = "generateTocItems"
  /\ probe.validCount = 4
  /\ probe.out[6].page = 5

TocPages == [k \in DOMAIN probe.out |-> probe.out[k].page]

\* C16 (as claimed): the panels are paired from page 3 on, the 1st and 2nd on
\* page 3, the 3rd and 4th on page 4; five panels give 1, 2, 3, 3, 4, 4, 5, 6.
C16_PairedFromPageThree ==
  probe.fn = "generateTocItems" =>
     /\ \A i \in 1..probe.validCount : probe.out[2 + i].page = 3 + (i - 1) \div 2
     /\ probe.validCount = 5 => TocPages = <<1, 2, 3, 3, 4, 4, 5, 6>>

\* C16 (amended): the 1st panel is alone on page 3 and the following panels
\* are paired from page 4 on, the 2nd and 3rd on page 4, the 4th and 5th on
\* page 5; five panels give 1, 2, 3, 4, 4, 5, 5, 6.
C16_FirstPanelAlone ==
  probe.fn = "generateTocItems" =>
     /\ \A i \in 1..probe.validCount :
           probe.out[2 + i].page = IF i = 1 THEN 3 ELSE 4 + (i - 2) \div 2
     /\ probe.validCount = 5 => TocPages = <<1, 2, 3, 4, 4, 5, 5, 6>>

C16_Witness ==
  /\ probe.fn = "generateTocItems"
  /\ probe.validCount = 5
  /\ probe.out[4].page = 4
  /\ probe.out[5].page = 4

\* C17: createFooterImages yields one footer for each page index 0..totalPages
\* in increasing order and createPageFooters keeps that order (entry k is the
\* footer of page index k - 1); five panels give 7 entries.
C17_FooterPerPageIndex ==
  probe.fn = "createFooterImages" =>
     LET totalPages == calculateTotalPages(probe.validCount)
     IN  /\ Len(probe.out) = totalPages + 1
         /\ \A k \in DOMAIN probe.out :
               /\ probe.out[k].type = "PageFooter"
               /\ probe.out[k].ref = k
               /\ probe.out[k].data = footerText(probe.allowToc, k - 1, totalPages)
         /\ \A j, k \in DOMAIN probe.out : j # k => probe.out[j].data # probe.out[k].data
         /\ probe.validCount = 5 => Len(probe.out) = 7

C17_Witness ==
  /\ probe.fn = "createFooterImages"
  /\ probe.validCount = 5
  /\ probe.allowToc
  /\ Len(probe.out) = 7
  /\ probe.out[7].data = "Page 6 of 6"

FooterEntries == {k \in DOMAIN visualizations : visualizations[k].type = "PageFooter"}

\* C18 (as claimed): the final entry sequence holds totalPages + 2 footer
\* entries.
C18_FooterCountPlusTwo ==
  Len(visualizations) > 0 =>
     Cardinality(FooterEntries) = calculateTotalPages(Len(validPanels)) + 2

\* C18 (amended): the final entry sequence holds totalPages + 1 footer
\* entries, one for each page index 0..totalPages.
C18_FooterCount ==
  Len(visualizations) > 0 =>
     /\ Cardinality(FooterEntries) = calculateTotalPages(Len(validPanels)) + 1
     /\ {visualizations[k].ref : k \in FooterEntries}
           = 1..(calculateTotalPages(Len(validPanels)) + 1)

C18_Witness ==
  /\ pc = "done"
  /\ Len(validPanels) = 2
  /\ Cardinality(FooterEntries) = 6

\* C19: once createFooterImages has returned, the footer of every page index
\* p in 0..totalPages exists and reads 'Page p of totalPages' with the table
\* of contents enabled and 'Page p-1 of totalPages-1' with it disabled.
C19_FooterText ==
  (pc = "dg_toc" \/ Len(visualizations) > 0) =>
     LET totalPages == calculateTotalPages(Len(validPanels))
     IN  /\ DOMAIN images.footers = 1..(totalPages + 1)
         /\ \A p \in 0..totalPages :
               images.footers[p + 1] =
                  IF allowTableOfContents
                  THEN "Page " \o ToString(p) \o " of " \o ToString(totalPages)
                  ELSE "Page " \o ToString(p - 1) \o " of " \o ToString(totalPages - 1)

C19_Witness ==
  /\ pc = "dg_toc"
  /\ ~allowTableOfContents
  /\ Len(validPanels) = 1
  /\ images.footers[1] = "Page -1 of 3"
  /\ images.footers[2] = "Page 0 of 3"
  /\ images.footers[5] = "Page 3 of 3"

PanelEntryTypes == {"visualizationTitle", "Visualization", "PageBreak"}

C21_PageBreaks ==
  probe.fn = "processVisualizationPanels" =>
    /\ Len(probe.out) = probe.validCount
    /\ \A p \in 1..probe.validCount :
         LET a == probe.out[p]
             i == p - 1
         IN  /\ Len(a) >= 1
             /\ (a[Len(a)].type = "PageBreak")
                  <=> (i % 2 = 1 /\ i # probe.validCount - 1)
             /\ \A k \in 1..Len(a) :
                  a[k].type = "PageBreak" =>
                    /\ k = Len(a)
                    /\ k > 1
                    /\ a[k - 1].type = "Visualization"
                    /\ a[k - 1].ref = p

\* five panels: markers after indices 1 and 3, none after the last (index 4)
C21_Witness ==
  /\ probe.fn = "processVisualizationPanels"
  /\ probe.validCount = 5
  /\ probe.out[2][Len(probe.out[2])].type = "PageBreak"
  /\ probe.out[4][Len(probe.out[4])].type = "PageBreak"
  /\ probe.out[5][Len(probe.out[5])].type = "Visualization"

\* C22: once mergePdfContent has returned, the output document is template
\* page 0 with the three cover texts drawn on it, then every page of the
\* content document in the content document's order and nothing drawn on
\* them, then template page 1; its page count is the content document's plus 2.
C22_MergedDocument ==
  /\ (pc \in {"pg_loop", "pg_tenant", "pg_saving"}) => mergedPdf # <<>>
  /\ mergedPdf # <<>> =>
       /\ Len(mergedPdf) = Len(reportPdf) + 2
       /\ mergedPdf[1].page = [doc |-> "template", index |-> 0]
       /\ mergedPdf[1].texts = <<"completeName", "dashboardName", "timestamp">>
       /\ \A k \in 1..Len(reportPdf) :
            /\ mergedPdf[k + 1].page = reportPdf[k]
            /\ mergedPdf[k + 1].texts = <<>>
       /\ mergedPdf[Len(mergedPdf)].page = [doc |-> "template", index |-> 1]
       /\ mergedPdf[Len(mergedPdf)].texts = <<>>

\* a three-page template merged with a three-page content document (contents
\* page and two content pages), and the result downloaded
C22_Witness ==
  /\ Len(templatePdf) = 3
  /\ Len(reportPdf) = 3
  /\ Len(mergedPdf) = 5
  /\ downloads = 1

\* the content pages of a rendered document: its pages after the contents page
ContentPages(doc) == SelectSeq(doc, LAMBDA pg : pg.kind = "content")
\* the places <<page, position>> at which panel j's visualization is rendered
PlacesOf(cp, j) ==
  {pl \in UNION {{<<k, q>> : q \in 1..Len(cp[k].pairs)} : k \in 1..Len(cp)} :
      cp[pl[1]].pairs[pl[2]][2].ref = j}

\* C23: PdfDocument renders the table-of-contents page first iff the table of
\* contents is enabled and content pages after it; the first content page
\* holds exactly one title/visualization pair, every later page two, except
\* that the last may hold one; the pairs keep the order of the entry sequence
\* and every panel's visualization is on exactly one page; the DashboardTitle
\* and Header images are on the first content page and on no other page.
C23_PageLayout ==
  probe.fn = "PdfDocument" =>
    LET doc == probe.out
        cp  == ContentPages(doc)
        n   == probe.validCount
    IN  /\ Len(doc) >= 1
        /\ (doc[1].kind = "toc") <=> probe.allowToc
        /\ \A k \in 2..Len(doc) : doc[k].kind = "content"
        /\ Len(cp) >= 1
        /\ Len(cp[1].pairs) = 1
        /\ \A k \in 2..Len(cp) :
             /\ Len(cp[k].pairs) \in {1, 2}
             /\ k < Len(cp) => Len(cp[k].pairs) = 2
        /\ \A k \in 1..Len(cp) : \A q \in 1..Len(cp[k].pairs) :
             /\ Len(cp[k].pairs[q]) = 2
             /\ cp[k].pairs[q][1].type = "visualizationTitle"
             /\ cp[k].pairs[q][2].type = "Visualization"
             /\ cp[k].pairs[q][1].ref = cp[k].pairs[q][2].ref
             /\ cp[k].pairs[q][2].ref \in 1..n
        /\ \A j \in 1..n : Cardinality(PlacesOf(cp, j)) = 1
        /\ \A i, j \in 1..n :
             i < j => \A a \in PlacesOf(cp, i), b \in PlacesOf(cp, j) :
                         a[1] < b[1] \/ (a[1] = b[1] /\ a[2] < b[2])
        /\ Len(cp[1].dashboardTitle) = 1
        /\ cp[1].dashboardTitle[1].type = "DashboardTitle"
        /\ Len(cp[1].headers) = 1
        /\ cp[1].headers[1].type = "Header"
        /\ \A k \in 1..Len(doc) :
             doc[k] # cp[1] => doc[k].dashboardTitle = <<>> /\ doc[k].headers = <<>>

\* four panels with the table of contents: the contents page, one pair, two
\* pairs, and a last page with one pair
C23_Witness ==
  /\ probe.fn = "PdfDocument"
  /\ probe.validCount = 4
  /\ probe.allowToc
  /\ Len(probe.out) = 4
  /\ Len(probe.out[3].pairs) = 2
  /\ Len(probe.out[4].pairs) = 1
  /\ Len(probe.out[2].headers) = 1

\* C24: every call of capturePanelScreenshot that is given a progress callback
\* invokes it exactly once, whether the call returns an image, throws, or
\* returns early.
C24_OnProgressOnce ==
  (probe.fn = "capturePanelScreenshot" /\ probe.arg.onProgress) =>
     probe.out.onProgressCalls = 1

\* the tenant checkTenantAccess saw is a custom one (neither Private nor Global)
CustomTenant == tenant \notin {"unknown", "__user__", ""}
\* save requests that the server refused (savePdfReport's error toast)
RefusedSaves == Len(SelectSeq(toasts, LAMBDA k : k = "error"))

PdfFailed ==
  phaseTracker.phase = "pdf_generation" /\ error.thrown /\ ~mergedPdfBytes

\* C29: when template loading, content-document generation, the merge (font
\* embedding or a page copy; always with a template of fewer than 2 pages) or
\* serialization fails, the pdf_generation phase fails: the error stays in
\* flight, nothing is downloaded or saved, the success phase is not entered,
\* and the run goes to the failed state and stays there.
C29_PdfFailureIsFatal ==
  [][ /\ (\E t \in DOMAIN pdfTask : pdfTask'[t] = "failed") =>
           (PdfFailed' /\ mergedPdf' = <<>>)
      /\ ((\A t \in DOMAIN pdfTask : pdfTask'[t] = "done")
            /\ Len(templatePdf') < 2 /\ pc' # "pg_load") =>
           (PdfFailed' /\ mergedPdf' = <<>>)
      /\ PdfFailed' =>
           /\ pc' \in {"pg_load", "op_rejected", "failed"}
           /\ downloads' = 0
           /\ saves' = 0
      /\ PdfFailed =>
           /\ PdfFailed'
           /\ (pc = "pg_load") => pc' = "op_rejected"
           /\ (pc = "op_rejected") => pc' = "failed"
           /\ (pc = "failed") => pc' = "failed" ]_vars

\* the template has one page only: both loads succeeded, the copy of template
\* page 1 threw and the run has ended in the failed state
C29_Witness ==
  /\ pc = "failed"
  /\ phaseTracker.phase = "pdf_generation"
  /\ \A t \in DOMAIN pdfTask : pdfTask[t] = "done"
  /\ Len(templatePdf) = 1
  /\ downloads = 0

\* handler k takes the step
StepOf(k) == handlers'[k] # handlers[k] /\ handlers[k].pc # "unused"
\* handler k asks for a stored report that another tenant saved
ForeignRequest(k) ==
  /\ handlers[k].route \in {"download", "delete", "send_email"}
  /\ handlers[k].pc # "authinfo"
  /\ reportsDirectory[handlers[k].fileId].exists
  /\ reportsDirectory[handlers[k].fileId].subject # handlers[k].tenant
\* the same from the moment the request has arrived
ForeignFromArrival(k) ==
  /\ handlers[k].route \in {"download", "delete", "send_email"}
  /\ reportsDirectory[handlers[k].fileId].exists
  /\ reportsDirectory[handlers[k].fileId].subject # tenantOf(handlers[k].user)
\* the reports a finished handler was given
Granted(h) ==
  IF h.response # "ok" THEN {}
  ELSE IF h.route = "reports" THEN h.reports
  ELSE IF h.route \in {"download", "delete", "send_email"} THEN {h.fileId}
  ELSE {}

\* C26 as stated: a stored report is listed, downloaded, deleted or emailed
\* only for a requester whose tenant equals the tenant recorded when it was
\* saved; a request by another tenant is answered 'Access denied' and leaves
\* the file and the metadata cache unchanged.
C26_ForeignRequestChangesNothing ==
  [][ \A k \in 1..MaxRequests :
        /\ StepOf(k) =>
              \A f \in Granted(handlers'[k]) :
                 reportsDirectory[f].subject = handlers'[k].tenant
        /\ (StepOf(k) /\ ForeignRequest(k)) =>
              /\ reportsDirectory' = reportsDirectory
              /\ metadataCache' = metadataCache
              /\ (handlers'[k].pc = "done") =>
                    handlers'[k].response = "Access denied" ]_vars

\* C26, amended: a stored report is listed, downloaded, deleted or emailed
\* only for a requester whose tenant equals the tenant recorded when it was
\* saved; a request by another tenant is never granted, leaves the file in
\* place and removes or alters no entry of the metadata cache (it may add the
\* file's own metadata to the cache); if the file is still there when the
\* request ends, the answer is 'Access denied', unless the authinfo lookup
\* failed (500) or, for send_email, the user is inside the cooldown: that
\* request is refused as rate limited before the file is looked at.
C26_TenantIsolation ==
  [][ /\ \A k \in 1..MaxRequests :
           /\ StepOf(k) =>
                 \A f \in Granted(handlers'[k]) :
                    reportsDirectory[f].subject = handlers'[k].tenant
           /\ (StepOf(k) /\ ForeignFromArrival(k)) =>
                 /\ reportsDirectory' = reportsDirectory
                 /\ \A f \in FileIds :
                       /\ metadataCache[f].cached => metadataCache'[f] = metadataCache[f]
                       /\ metadataCache'[f].cached =>
                             metadataCache'[f].tenant = reportsDirectory[f].subject
                 /\ handlers'[k].response # "ok"
                 /\ (handlers'[k].pc = "done") =>
                       \/ handlers'[k].response = "Access denied"
                       \/ handlers[k].pc = "authinfo"
                          /\ handlers'[k].response \in {"500", "rate limited"}
           /\ (StepOf(k) /\ handlers[k].pc = "authinfo"
                 /\ handlers'[k].response = "rate limited") =>
                 /\ handlers[k].route = "send_email"
                 /\ UNCHANGED <<reportsDirectory, metadataCache>>
      /\ \A e \in emails' \ emails :
           reportsDirectory[e.fileId].subject = e.tenant ]_vars

\* bob (private tenant) asked to download a report that alice saved under
\* tenantA: access was denied, the file is in place, and its metadata is now
\* in the cache
C26_Witness ==
  \E k \in 1..MaxRequests :
     /\ handlers[k].route = "download"
     /\ handlers[k].user = "bob"
     /\ handlers[k].response = "Access denied"
     /\ reportsDirectory[handlers[k].fileId] = [exists |-> TRUE, subject |-> "tenantA"]
     /\ metadataCache[handlers[k].fileId].cached

\* C27: for any user, any two send_email requests that each resulted in an
\* email being sent are at least ten minutes apart, also when the requests of
\* that user are handled concurrently.
C27_OneEmailPerTenMinutes ==
  \A e1, e2 \in emails :
     (e1.request # e2.request /\ e1.user = e2.user) =>
        (e1.now - e2.now >= tenMinutes \/ e2.now - e1.now >= tenMinutes)

\* every subscription handler has finished and the chrome has nothing left
\* to mount or to clean up
PluginAtRest ==
  /\ pendingRoleChecks = 0
  /\ \A c \in 1..MaxAppChanges : navControls[c] \notin {"registered", "removing"}

\* C28: once all pending handlers have finished, the 'Generate PDF Report'
\* control is mounted if and only if the latest application id is
\* 'dashboards'; and at most one control is mounted at any time.
C28_MountedIffOnDashboard ==
  /\ containers <= 1
  /\ PluginAtRest => ((containers = 1) <=> (currentAppId = "dashboards"))

\* C30: when generatePdfReport is invoked while an earlier invocation on the
\* same service is still running, then after both runs have finished every
\* panel's inline style (top, left, width, height, position, visibility)
\* equals its value before the first run started.
\* Stated here for the panels that at most one loop of preparePanelDimensions
\* handles: these are the panels a single run does put back.
C30_StylesRestoredAfterBothRuns ==
  (runs[1].pc = "finished" /\ runs[2].pc = "finished") =>
     \A i \in 1..Len(panels) :
        Cardinality({k \in 1..Len(Probes) : ProbeMatches(Probes[k], panels[i])}) <= 1 =>
           rootStyle[i] = InitialRootStyle /\ embStyle[i] = InitialEmbStyle

\* C31: once a run has failed and the error modal has been shown, no later
\* call to the modal host shows a loading/progress modal for that run:
\* progress callbacks of captures or retrievals that complete after the
\* failure do not overwrite the error display.
C31_ErrorDisplayStays ==
  [][ (pc = "failed") =>
        \A k \in (Len(modalCalls) + 1)..Len(modalCalls') :
           modalCalls'[k].type # "loading" ]_vars

\* C32: the layout restore closure is never invoked while a panel capture
\* started by the same run is still pending: when the finally block of
\* getVisualizationData has run restoreLayout, every capture issued by
\* processVisualizationPanels has settled, also when one of them failed.
C32_RestoreAfterCaptures ==
  pc = "dg_finally" =>
     \A i \in ValidSet : panelTask[i] \notin {"capturing", "title"}

\* C34: panel capture is best-effort per element: when the main screenshot of
\* one panel fails, the run does not fail (the other panels' entries are still
\* produced and the run goes on to success).
C34_PanelFailureNonFatal ==
  (\E i \in ValidSet : panelTask[i] = "failed") => pc # "failed"

\* C33: every decorative node inserted into the clone after the first strip
\* is removed as well, whether it is inserted as a descendant of an added
\* subtree or is itself the added node: the insertion leaves no decorative
\* node in the clone.
C33_LateDecorationsRemoved ==
  probe.fn = "hideUnwantedElements" =>
     /\ probe.out.node \notin selectorsToRemove
     /\ probe.out.descendants \cap selectorsToRemove = {}

\* a page of the merged document that comes from the content document
FromReport(pg) == "kind" \in DOMAIN pg.page
\* the positions (1-based) in the merged document of the pages that render the
\* visualization of panel j
PositionsOf(merged, j) ==
  {k \in 1..Len(merged) :
     /\ FromReport(merged[k])
     /\ \E q \in 1..Len(merged[k].page.pairs) : merged[k].page.pairs[q][2].ref = j}
\* the positions of the content pages in the merged document
ContentPositions(merged) ==
  {k \in 1..Len(merged) : FromReport(merged[k]) /\ merged[k].page.kind = "content"}

\* C35: with the table of contents enabled, for every panel count N >= 1 and
\* every panel i, the page number listed for panel i in the table of contents
\* is the 1-based position, in the merged document (cover, contents page,
\* content pages, back page), of the page that renders panel i's pair; and
\* the Appendix page number is the position of the back page.
C35_TocMatchesDocument ==
  (probe.fn = "mergePdfContent" /\ probe.allowToc) =>
     LET toc    == probe.out.toc
         merged == probe.out.merged
         n      == probe.validCount
     IN  /\ Len(toc) = n + 3
         /\ \A i \in 1..n : PositionsOf(merged, i) = {toc[2 + i].page}
         /\ toc[n + 3].title = "Appendix"
         /\ toc[n + 3].page = Len(merged)
         /\ merged[Len(merged)].page = [doc |-> "template", index |-> 1]
         /\ merged[2].page.kind = "toc"

\* five panels with the table of contents: cover, contents, three content
\* pages (1, 2 and 2 panels) and the back page; panel 5 is listed on page 5
C35_Witness ==
  /\ probe.fn = "mergePdfContent"
  /\ probe.allowToc
  /\ probe.validCount = 5
  /\ Len(probe.out.merged) = 6
  /\ probe.out.toc[7].page = 5
  /\ PositionsOf(probe.out.merged, 5) = {5}

\* C36: for every panel count N >= 1 and both settings of
\* allowTableOfContents, every content page has a footer, and the 'Page x of
\* y' it shows has x equal to the page's 1-based position in the merged
\* document and y equal to the merged document's number of pages.
C36_ContentFooters ==
  probe.fn = "mergePdfContent" =>
     LET merged == probe.out.merged
     IN  /\ ContentPositions(merged) # {}
         /\ \A k \in ContentPositions(merged) :
              /\ Len(merged[k].page.footer) = 1
              /\ merged[k].page.footer[1].type = "PageFooter"
              /\ merged[k].page.footer[1].data =
                    "Page " \o ToString(k) \o " of " \o ToString(Len(merged))

\* three panels without the table of contents: cover, two content pages and
\* the back page; the second content page shows 'Page 3 of 4'
C36_Witness ==
  /\ probe.fn = "mergePdfContent"
  /\ ~probe.allowToc
  /\ probe.validCount = 3
  /\ Len(probe.out.merged) = 4
  /\ probe.out.merged[3].page.footer[1].data = "Page 3 of 4"

\* C37: when the table of contents is enabled, the footer on the
\* table-of-contents page shows page number 2, the page's 1-based position in
\* the merged document.
C37_TocFooter ==
  (probe.fn = "mergePdfContent" /\ probe.allowToc) =>
     LET merged == probe.out.merged
     IN  /\ merged[2].page.kind = "toc"
         /\ Len(merged[2].page.footer) = 1
         /\ merged[2].page.footer[1].data =
               "Page 2 of " \o ToString(Len(merged))

\* C38: in every phase of a successful run the progress handler created by
\* createProgressHandler has been invoked at most totalSteps times, so the
\* unclamped fraction currentStep/totalSteps never exceeds 1 (for
\* data_gathering, info_retrieval and pdf_generation).
C38_StepsWithinTotal ==
  pc = "done" =>
     \A ph \in {"data_gathering", "info_retrieval", "pdf_generation"} :
        progressHandler[ph].currentStep <= progressHandler[ph].totalSteps

SavedRequests ==
  {k \in 1..MaxRequests : Handler(k).route = "save" /\ Handler(k).response = "ok"}

\* C40: the tenant recorded in a saved report is the tenant authinfo gave for
\* the saving user (the private default when the user selected none), whatever
\* tenant and dashboard the request's query named; two successful saves of the
\* same user record the same tenant even when their query parameters differ.
C40_SavedUnderAuthenticatedTenant ==
  /\ \A k \in SavedRequests :
        reportsDirectory[Handler(k).fileId].subject = tenantOf(Handler(k).user)
  /\ \A j, k \in SavedRequests :
        Handler(j).user = Handler(k).user =>
           reportsDirectory[Handler(j).fileId].subject
              = reportsDirectory[Handler(k).fileId].subject

\* one user saved two reports naming different tenants and dashboards in the
\* query, one of them a tenant that is not the user's
C40_Witness ==
  \E j, k \in SavedRequests :
     /\ j # k
     /\ Handler(j).user = "bob"
     /\ Handler(k).user = "bob"
     /\ Handler(j).query.tenant = "tenantA"
     /\ Handler(k).query.tenant = DEFAULT_TENANT_NAME
     /\ Handler(j).query.dashboard # Handler(k).query.dashboard
     /\ reportsDirectory[Handler(j).fileId].exists
     /\ reportsDirectory[Handler(k).fileId].exists

====
